---------------------------- MODULE Spec2Model ----------------------------
(***************************************************************************)
(* The renamed.to Rust SDK: the retrying request executor                  *)
(* (RenamedClient::execute_request, client.rs), the HTTP error             *)
(* classification (RenamedError::from_http_status / from_reqwest,          *)
(* error.rs) and the job poller (AsyncJob::status / wait, async_job.rs).   *)
(*                                                                         *)
(* The specifications share the variables:                                 *)
(*   Spec          one execute_request call, stepped at its await points   *)
(*   SpecClassify  from_http_status applied to a drawn (status, body)      *)
(*   SpecWait      one AsyncJob::wait call, stepped at its await points    *)
(*   FairSpecCalls one call of either, on a transport that answers         *)
(*   SpecTasks     concurrent calls on one client and its shared transport *)
(* A specification leaves the variables of the others at their idle        *)
(* values.                                                                 *)
(***************************************************************************)
EXTENDS Integers, Sequences, FiniteSets, TLC

VARIABLES
    \* ---- RenamedClient (client.rs:163-169) and the build profile
    max_retries,      \* RenamedClient.max_retries: u32
    debug,            \* RenamedClient.debug
    overflow_checks,  \* build profile: arithmetic overflow panics (dev) or wraps (release)
    cloneable,        \* whether request.try_clone() yields a copy (buffered body)
    \* ---- one execute_request call (client.rs:267-328)
    pc,               \* "idle" | "loop" | "send" | "sleep" | "done" | "panicked"
    attempt,          \* the for-loop variable
    last_error,       \* Option<RenamedError>
    result,           \* Option<Result<String>>: what the call returned
    sends,            \* number of req.send() calls made
    responses,        \* number of sends that yielded a response (status known)
    sleeps,           \* delays passed to tokio::time::sleep, in order
    log_delays,       \* delay_ms values written by the retry warn! line, in order
    first_failure,    \* Option: the kind the first failed send was classified as
    last_failure,     \* Option: the transport error of the latest failed send
    quiet,            \* the same call, fed the same transport results, on a client with debug = false
    \* ---- from_http_status applied to one input (error.rs:128-168)
    cl_pc,            \* "idle" | "input" | "classified"
    cl_status,        \* status: u16
    cl_body,          \* body: Option<&str>
    cl_result,        \* Option<RenamedError>
    \* ---- AsyncJob (async_job.rs:51-69) and one wait call (async_job.rs:194-229)
    max_attempts,     \* AsyncJob.max_attempts: u32
    on_progress,      \* "none" | "record" | "panic": the callback handed to wait
    wpc,              \* "idle" | "loop" | "status" | "sleep" | "done" | "panicked" | "cancelled"
    wattempt,         \* the for-loop variable _attempt
    wresult,          \* Option<Result<PdfSplitResult>>: what wait returned
    calls,            \* number of self.status() calls made
    received,         \* snapshots returned by status(), in order
    callbacks,        \* snapshots handed to the progress callback, in order
    wsleeps,          \* number of poll_interval sleeps started
    last_reply,       \* Option: what the transport answered to the latest status request
    status_url,       \* AsyncJob.status_url
    poll_interval,    \* AsyncJob.poll_interval: Duration, in seconds
    last_built,       \* Option: the latest with_* call made on the job
    waits,            \* number of wait calls started on the job
    slept,            \* seconds the current wait call has asked tokio to sleep
    prev_result,      \* Option: what the previous wait call on the job returned
    \* ---- concurrent calls on one RenamedClient and its shared reqwest::Client
    \* ---- (client.rs:163-169, 605-610); the members below are per task
    api_key,          \* RenamedClient.api_key, cloned into every AsyncJob
    op,               \* "idle" | "execute_request" | "wait" | "download_file"
    trequest,         \* the RequestBuilder handed to execute_request
    tmax_attempts,    \* AsyncJob.max_attempts of the job the task waits for
    tpc,              \* "idle" | "loop" | "send" | "sleep" | "done"
    tattempt,         \* the call's loop variable (attempt / _attempt)
    tlast_error,      \* the call's last_error
    tresult,          \* Option<Result>: what the call returned
    tsent,            \* the requests the call handed to the transport, in order
    tseen,            \* what the transport answered to the call, in order
    logged,           \* the lines handed to the log macros so far (shared logger)
    \* ---- a helper function of the client applied to one input
    \* ---- (mask_api_key, build_url; client.rs:197-216)
    call,             \* "idle" | the name of the function
    call_args,        \* its arguments, self's members among them
    call_result       \* Option: what it returned, or that it panicked

clientVars == <<max_retries, debug, overflow_checks, cloneable>>
execVars == <<pc, attempt, last_error, result, sends, responses, sleeps,
              log_delays, first_failure, last_failure>>
classifyVars == <<cl_pc, cl_status, cl_body, cl_result>>
waitVars == <<max_attempts, on_progress, wpc, wattempt, wresult, calls,
              received, callbacks, wsleeps, last_reply>>
taskVars == <<api_key, op, trequest, tmax_attempts, tpc, tattempt, tlast_error,
              tresult, tsent, tseen, logged>>
callVars == <<call, call_args, call_result>>
jobVars == <<status_url, poll_interval, last_built, waits, slept, prev_result>>
quietVars == <<quiet>>
vars == <<clientVars, execVars, classifyVars, waitVars, taskVars, callVars,
          jobVars, quietVars>>

(***************************************************************************)
(* Bounds of the model.                                                    *)
(***************************************************************************)
MaxRetries == 66        \* max_retries ranges over 0..MaxRetries
MaxPollAttempts == 3    \* max_attempts ranges over 0..MaxPollAttempts
MinStatus == 396        \* from_http_status is applied to MinStatus..MaxStatus
MaxStatus == 432        \*   and to the statuses of ExtraStatuses
MaxTaskRetries == 2     \* max_retries ranges over 0..MaxTaskRetries under SpecTasks
MaxTaskPolls == 2       \* a job's max_attempts ranges over 0..MaxTaskPolls under SpecTasks

(***************************************************************************)
(* Option<T>: None is the empty sequence, Some(x) the one-element one.     *)
(***************************************************************************)
None == <<>>
Some(x) == <<x>>
IsSome(o) == o # <<>>
Unwrap(o) == o[1]

(***************************************************************************)
(* RenamedError (error.rs:15-114).  A message is a format string with its  *)
(* argument; the fields a variant does not have are None.                  *)
(***************************************************************************)
Msg(text) == [text |-> text, arg |-> None]
MsgArg(text, a) == [text |-> text, arg |-> Some(a)]

RenamedError(kind, message, status_code, retry_after, job_id, details) ==
    [kind |-> kind, message |-> message, status_code |-> status_code,
     retry_after |-> retry_after, job_id |-> job_id, details |-> details]

\* Result<T>: Ok(v) and Err(e)
Ok(v) == [ok |-> TRUE, value |-> Some(v), err |-> None]
Err(e) == [ok |-> FALSE, value |-> None, err |-> Some(e)]

(***************************************************************************)
(* A response body as serde_json sees it.  It is either no JSON object at  *)
(* all ("garbage") or an object whose "error" and "retryAfter" members are *)
(* absent, null, of the type ApiErrorResponse declares, or of another      *)
(* type; extra tells whether the object has members besides those two.     *)
(***************************************************************************)
ErrorFields ==
    {[tag |-> "absent", val |-> ""], [tag |-> "null", val |-> ""],
     [tag |-> "string", val |-> "Slow down"], [tag |-> "other", val |-> ""]}
RetryAfterFields ==
    {[tag |-> "absent", val |-> 0], [tag |-> "null", val |-> 0],
     [tag |-> "u32", val |-> 0], [tag |-> "u32", val |-> 30],
     [tag |-> "other", val |-> 0]}
Garbage ==
    [json |-> "garbage", error |-> [tag |-> "absent", val |-> ""],
     retryAfter |-> [tag |-> "absent", val |-> 0], extra |-> FALSE]
Bodies ==
    {Garbage} \cup
    [json : {"object"}, error : ErrorFields, retryAfter : RetryAfterFields,
     extra : BOOLEAN]

\* serde_json::from_str::<ApiErrorResponse>(b).ok()  (error.rs:117-124, 130)
parse_ApiErrorResponse(b) ==
    IF \/ b.json # "object"
       \/ b.error.tag = "other"
       \/ b.retryAfter.tag = "other"
    THEN None
    ELSE Some([error |-> IF b.error.tag = "string" THEN Some(b.error.val) ELSE None,
               retry_after |-> IF b.retryAfter.tag = "u32"
                               THEN Some(b.retryAfter.val) ELSE None,
               extra |-> b.extra])

\* Variant of kind_of_status without the 422 pattern of the Validation arm.
kind_of_status_dropping_422(status) ==
    CASE status = 401 -> "Authentication"
      [] status = 402 -> "InsufficientCredits"
      [] status = 400 -> "Validation"
      [] status = 429 -> "RateLimit"
      [] OTHER -> "Api"

\* The match of from_http_status (error.rs:142-167): the variant for a status.
kind_of_status(status) ==
    CASE status = 401 -> "Authentication"
      [] status = 402 -> "InsufficientCredits"
      [] status \in {400, 422} -> "Validation"
      [] status = 429 -> "RateLimit"
      [] OTHER -> "Api"

\* Variant of retry_after_of that never propagates the hint.
retry_after_dropped(error_response) == None

\* error_response.and_then(|r| r.retry_after)  (error.rs:159)
retry_after_of(error_response) ==
    IF IsSome(error_response) THEN Unwrap(error_response).retry_after ELSE None

\* RenamedError::from_http_status(status, body)  (error.rs:128-168)
from_http_status(status, body) ==
    LET error_response ==
            IF IsSome(body) THEN parse_ApiErrorResponse(Unwrap(body)) ELSE None
        message ==
            IF IsSome(error_response) /\ IsSome(Unwrap(error_response).error)
            THEN Msg(Unwrap(Unwrap(error_response).error))
            ELSE MsgArg("HTTP {}", status)
        details ==
            IF IsSome(error_response) /\ Unwrap(error_response).extra
            THEN Some("extra") ELSE None
        kind == kind_of_status(status)
    IN  RenamedError(kind, message, Some(status),
                     IF kind = "RateLimit" THEN retry_after_of(error_response) ELSE None,
                     None,
                     IF kind \in {"Validation", "Api"} THEN details ELSE None)

\* A reqwest::Error as from_reqwest reads it: is_timeout() and is_connect().
ReqwestErrors == [timeout : BOOLEAN, connect : BOOLEAN]

\* RenamedError::from_reqwest(err)  (error.rs:171-187)
from_reqwest(err) ==
    IF err.timeout
    THEN RenamedError("Timeout", Msg("Request timed out"), None, None, None, None)
    ELSE IF err.connect
    THEN RenamedError("Network", Msg("Connection failed"), None, None, None, None)
    ELSE RenamedError("Network", Msg("{err}"), None, None, None, None)

\* RenamedError::job_error(message, job_id)  (error.rs:190-195)
job_error(message, job_id) ==
    RenamedError("Job", message, None, None, job_id, None)

(***************************************************************************)
(* Fixed-width arithmetic of the backoff delay.  A value is kept as        *)
(* m * 2^e with m odd (or as zero), which holds every value the two delay  *)
(* expressions can take: 1 << n is 2^n and 100 = 25 * 2^2.                 *)
(***************************************************************************)
Zero == [m |-> 0, e |-> 0]
Scaled(m, e) == [m |-> m, e |-> e]

RECURSIVE Pow2(_)
Pow2(n) == IF n = 0 THEN 1 ELSE 2 * Pow2(n - 1)

\* `1 << n` in a type of `width` bits: the shift amount is taken modulo the
\* width when the build does not check for overflow.
shl_one(n, width) == Scaled(1, n % width)
shl_overflows(n, width) == n >= width

\* `100 * v` for v = 2^e, wrapped to `width` bits: 25 * 2^(e+2) mod 2^width.
mul_100(v, width) ==
    LET e == v.e + 2 IN
    IF e >= width THEN Zero
    ELSE Scaled(IF width - e >= 5 THEN 25 ELSE 25 % Pow2(width - e), e)
\* whether 100 * 2^e exceeds a type with `bits` value bits: 25 < 2^5, so
\* 25 * 2^(e+2) < 2^bits exactly when e + 7 <= bits.
mul_100_overflows(v, bits) == v.e + 7 > bits

\* Duration::from_millis(100 * (1 << attempt)): u64  (client.rs:317)
backoff_delay(a) == mul_100(shl_one(a, 64), 64)
backoff_delay_overflows(a) ==
    shl_overflows(a, 64) \/ mul_100_overflows(shl_one(a, 64), 64)

\* The bits of v read as a two's complement number of `width` bits: a value
\* of 2^(width-1) or more stands for itself minus 2^width.
as_signed(v, width) ==
    LET k == width - 1 - v.e IN
    IF v.m = 0 \/ k >= 5 \/ v.m < Pow2(k) THEN v
    ELSE Scaled(v.m - Pow2(k + 1), v.e)

\* let delay_ms = 100 * (1 << (attempt - 1)): i32  (client.rs:284)
log_delay_ms(a) == as_signed(mul_100(shl_one(a - 1, 32), 32), 32)
log_delay_ms_overflows(a) ==
    shl_overflows(a - 1, 32) \/ mul_100_overflows(shl_one(a - 1, 32), 31)

(***************************************************************************)
(* RenamedClient::execute_request (client.rs:267-328), one step per await  *)
(* point: the loop head up to req.send(), the send with the read of the    *)
(* body, the backoff sleep.                                                *)
(***************************************************************************)
ExecStatuses == {200, 302, 400, 429, 500}
ExecBodies ==
    {Garbage,
     [json |-> "object", error |-> [tag |-> "string", val |-> "Slow down"],
      retryAfter |-> [tag |-> "u32", val |-> 30], extra |-> FALSE]}

\* the failures of response.text() the model draws from
TextErrors == {[timeout |-> TRUE, connect |-> FALSE], [timeout |-> FALSE, connect |-> FALSE]}

\* the members of one run of execute_request that its caller and the
\* transport can observe
Run(p, a, le, r, n, sl) ==
    [pc |-> p, attempt |-> a, last_error |-> le, result |-> r, sends |-> n,
     sleeps |-> sl]

ExecIdle ==
    /\ pc = "idle" /\ attempt = 0 /\ last_error = None /\ result = None
    /\ sends = 0 /\ responses = 0 /\ sleeps = <<>> /\ log_delays = <<>>
    /\ first_failure = None /\ last_failure = None
    /\ quiet = Run("idle", 0, None, None, 0, <<>>)
ClientIdle ==
    /\ max_retries = 0 /\ debug = FALSE /\ overflow_checks = FALSE
    /\ cloneable = TRUE
ClassifyIdle ==
    /\ cl_pc = "idle" /\ cl_status = 0 /\ cl_body = None /\ cl_result = None
CallIdle == call = "idle" /\ call_args = <<>> /\ call_result = None
Tasks == {"t1", "t2"}
NoRequest == [authorization |-> None, cloneable |-> FALSE]
TasksIdle ==
    /\ api_key = <<>>
    /\ op = [t \in Tasks |-> "idle"]
    /\ trequest = [t \in Tasks |-> NoRequest]
    /\ tmax_attempts = [t \in Tasks |-> 0]
    /\ tpc = [t \in Tasks |-> "idle"]
    /\ tattempt = [t \in Tasks |-> 0]
    /\ tlast_error = [t \in Tasks |-> None]
    /\ tresult = [t \in Tasks |-> None]
    /\ tsent = [t \in Tasks |-> <<>>]
    /\ tseen = [t \in Tasks |-> <<>>]
    /\ logged = {}
JobIdle ==
    /\ status_url = "" /\ poll_interval = 0 /\ last_built = None
    /\ waits = 0 /\ slept = 0 /\ prev_result = None
WaitIdle ==
    /\ max_attempts = 0 /\ on_progress = "none" /\ wpc = "idle" /\ wattempt = 0
    /\ wresult = None /\ calls = 0 /\ received = <<>> /\ callbacks = <<>>
    /\ wsleeps = 0 /\ last_reply = None
    /\ JobIdle

\* RenamedClientBuilder::build and the call of execute_request: last_error = None,
\* the loop about to start at attempt 0  (client.rs:116-139, 273-276)
Init ==
    /\ max_retries \in 0..MaxRetries
    /\ debug \in BOOLEAN
    /\ overflow_checks \in BOOLEAN
    /\ cloneable \in BOOLEAN
    /\ pc = "loop" /\ attempt = 0 /\ last_error = None /\ result = None
    /\ sends = 0 /\ responses = 0 /\ sleeps = <<>> /\ log_delays = <<>>
    /\ first_failure = None /\ last_failure = None
    /\ quiet = Run("loop", 0, None, None, 0, <<>>)
    /\ ClassifyIdle
    /\ WaitIdle
    /\ TasksIdle
    /\ CallIdle

\* Variant of loop_ended for a loop without an upper end.
loop_ended_never == FALSE

\* Whether the for loop `0..=self.max_retries` is exhausted  (client.rs:276)
loop_ended == attempt > max_retries

\* The error returned once the loop is exhausted  (client.rs:324-327)
exhausted_error ==
    IF IsSome(last_error) THEN Unwrap(last_error)
    ELSE RenamedError("Network", Msg("Request failed after retries"),
                      None, None, None, None)

\* Variant of record_failure that forgets the failure.
record_failure_dropped(err) == None

\* Variant of record_failure that keeps the first failure recorded.
record_failure_keeping_first(err) ==
    IF IsSome(last_error) THEN last_error ELSE Some(from_reqwest(err))

\* last_error = Some(RenamedError::from_reqwest(err))  (client.rs:314)
record_failure(err) == Some(from_reqwest(err))

\* Variant of retry_left that backs off after every failure.
retry_left_always == TRUE

\* `attempt < self.max_retries`: a retry is left  (client.rs:315)
retry_left == attempt < max_retries

\* Variant of retry_response that retries a 5xx response while a retry is left.
retry_response_on_5xx(status_code) == status_code >= 500 /\ retry_left

\* Whether a response already received is given up for another attempt: never,
\* both branches of the Ok(response) arm return  (client.rs:292-312)
retry_response(status_code) == FALSE

\* Variant of clone_failed for a request that is sent as it is.
clone_failed_ignored == FALSE

\* request.try_clone() is None: the body of the request is a stream
\* (client.rs:277)
clone_failed == ~cloneable

\* The error of `ok_or_else` when try_clone gave nothing  (client.rs:277-280)
clone_error ==
    RenamedError("Network", Msg("Failed to clone request for retry"),
                 None, None, None, None)

(***************************************************************************)
(* execute_request with self.debug = false, as a function of the run: the  *)
(* branches `if attempt > 0 && self.debug` and `if self.debug` are not     *)
(* taken  (client.rs:276-328).                                             *)
(***************************************************************************)
\* the loop head  (client.rs:276-280, 324-327)
quiet_loop(st) ==
    IF st.pc # "loop" THEN st
    ELSE IF st.attempt > max_retries
    THEN [st EXCEPT !.pc = "done",
                    !.result = Some(Err(IF IsSome(st.last_error)
                                        THEN Unwrap(st.last_error)
                                        ELSE RenamedError("Network",
                                               Msg("Request failed after retries"),
                                               None, None, None, None)))]
    ELSE IF clone_failed
    THEN [st EXCEPT !.pc = "done", !.result = Some(Err(clone_error))]
    ELSE [st EXCEPT !.pc = "send"]

\* req.send() fails  (client.rs:313-320)
quiet_send_err(st, err) ==
    IF st.pc # "send" THEN st
    ELSE LET failed == [st EXCEPT !.sends = @ + 1,
                                  !.last_error = Some(from_reqwest(err))] IN
         IF st.attempt < max_retries
         THEN IF overflow_checks /\ backoff_delay_overflows(st.attempt)
              THEN [failed EXCEPT !.pc = "panicked"]
              ELSE [failed EXCEPT !.pc = "sleep",
                                  !.sleeps = Append(@, backoff_delay(st.attempt))]
         ELSE [failed EXCEPT !.pc = "loop", !.attempt = @ + 1]

\* tokio::time::sleep(delay) returns  (client.rs:318-322)
quiet_sleep_done(st) ==
    IF st.pc # "sleep" THEN st
    ELSE [st EXCEPT !.pc = "loop", !.attempt = @ + 1]

\* req.send() yields a response  (client.rs:292-312)
quiet_send_ok(st, status_code, body, text_err) ==
    IF st.pc # "send" THEN st
    ELSE [st EXCEPT !.pc = "done",
                    !.sends = @ + 1,
                    !.result = Some(IF IsSome(text_err)
                                    THEN Err(from_reqwest(Unwrap(text_err)))
                                    ELSE IF status_code >= 400
                                    THEN Err(from_http_status(status_code, Some(body)))
                                    ELSE Ok(body))]

\* The loop head: the exit of the loop, try_clone, the retry log line
\* (client.rs:276-289, 324-327)
execute_request_loop ==
    /\ pc = "loop"
    /\ IF loop_ended
       THEN /\ result' = Some(Err(exhausted_error))
            /\ pc' = "done"
            /\ UNCHANGED log_delays
       ELSE IF clone_failed
       THEN /\ result' = Some(Err(clone_error))
            /\ pc' = "done"
            /\ UNCHANGED log_delays
       ELSE IF attempt > 0 /\ debug
       THEN IF overflow_checks /\ log_delay_ms_overflows(attempt)
            THEN /\ pc' = "panicked"
                 /\ UNCHANGED <<result, log_delays>>
            ELSE /\ log_delays' = Append(log_delays, log_delay_ms(attempt))
                 /\ pc' = "send"
                 /\ UNCHANGED result
       ELSE /\ pc' = "send"
            /\ UNCHANGED <<result, log_delays>>
    /\ UNCHANGED <<attempt, last_error, sends, responses, sleeps,
                   first_failure, last_failure>>
    /\ quiet' = quiet_loop(quiet)
    /\ UNCHANGED <<clientVars, classifyVars, waitVars, taskVars, callVars, jobVars>>

\* req.send() fails: Err(err)  (client.rs:313-320)
execute_request_send_err(err) ==
    /\ pc = "send"
    /\ sends' = sends + 1
    /\ last_error' = record_failure(err)
    /\ last_failure' = Some(err)
    /\ first_failure' = IF IsSome(first_failure) THEN first_failure
                        ELSE Some(from_reqwest(err).kind)
    /\ IF retry_left
       THEN IF overflow_checks /\ backoff_delay_overflows(attempt)
            THEN /\ pc' = "panicked"
                 /\ UNCHANGED <<sleeps, attempt>>
            ELSE /\ sleeps' = Append(sleeps, backoff_delay(attempt))
                 /\ pc' = "sleep"
                 /\ UNCHANGED attempt
       ELSE /\ attempt' = attempt + 1
            /\ pc' = "loop"
            /\ UNCHANGED sleeps
    /\ UNCHANGED <<result, responses, log_delays>>
    /\ quiet' = quiet_send_err(quiet, err)
    /\ UNCHANGED <<clientVars, classifyVars, waitVars, taskVars, callVars, jobVars>>

\* tokio::time::sleep(delay) returns; the loop goes on  (client.rs:318-322)
execute_request_sleep_done ==
    /\ pc = "sleep"
    /\ attempt' = attempt + 1
    /\ pc' = "loop"
    /\ UNCHANGED <<last_error, result, sends, responses, sleeps, log_delays,
                   first_failure, last_failure>>
    /\ quiet' = quiet_sleep_done(quiet)
    /\ UNCHANGED <<clientVars, classifyVars, waitVars, taskVars, callVars, jobVars>>

\* req.send() yields a response; text_err is the failure of response.text(),
\* if any  (client.rs:292-312)
execute_request_send_ok(status_code, body, text_err) ==
    /\ pc = "send"
    /\ sends' = sends + 1
    /\ responses' = responses + 1
    /\ IF retry_response(status_code)
       THEN /\ attempt' = attempt + 1
            /\ pc' = "loop"
            /\ UNCHANGED result
       ELSE /\ result' = Some(IF IsSome(text_err)
                              THEN Err(from_reqwest(Unwrap(text_err)))
                              ELSE IF status_code >= 400
                              THEN Err(from_http_status(status_code, Some(body)))
                              ELSE Ok(body))
            /\ pc' = "done"
            /\ UNCHANGED attempt
    /\ UNCHANGED <<last_error, sleeps, log_delays, first_failure, last_failure>>
    /\ quiet' = quiet_send_ok(quiet, status_code, body, text_err)
    /\ UNCHANGED <<clientVars, classifyVars, waitVars, taskVars, callVars, jobVars>>

Next ==
    \/ execute_request_loop
    \/ \E err \in ReqwestErrors : execute_request_send_err(err)
    \/ execute_request_sleep_done
    \/ \E status_code \in ExecStatuses, body \in ExecBodies,
          text_err \in {None} \cup {Some(e) : e \in TextErrors} :
          execute_request_send_ok(status_code, body, text_err)

Spec == Init /\ [][Next]_vars

(***************************************************************************)
(* Claims about execute_request, checked under Spec.                       *)
(***************************************************************************)
\* the call is over: it returned or it panicked
ExecEnded == pc \in {"done", "panicked"}
\* every attempt of the call ended in a transport failure: the request could be
\* sent (try_clone gave a copy) and no send obtained a response
OnlyTransportFailures == cloneable /\ responses = 0
\* 100 * 2^(k-1) milliseconds, as a value m * 2^e
IdealDelay(k) == Scaled(25, k + 1)

\* C1: when every attempt ends in a transport failure, exactly max_retries + 1
\* sends are made, for every max_retries: never more, and never fewer once
\* the call is over.
C1_ExactlyMaxRetriesPlusOneSends ==
    /\ sends <= max_retries + 1
    /\ (ExecEnded /\ OnlyTransportFailures) => sends = max_retries + 1

\* C2: once a send has obtained a response the call is over with a result,
\* whatever the status: no later step sends or sleeps again, and a response to
\* the first attempt means exactly one send and no backoff sleep.
C2_ResponseEndsTheLoop ==
    /\ [](responses >= 1 =>
            /\ pc = "done" /\ IsSome(result)
            /\ responses = 1 /\ sends = attempt + 1
            /\ (attempt = 0 => sends = 1 /\ sleeps = <<>>))
    /\ [][responses >= 1 => (sends' = sends /\ sleeps' = sleeps)]_vars

C2_Witness ==
    /\ pc = "done" /\ responses = 1 /\ sends = 1 /\ max_retries >= 2
    /\ ~Unwrap(result).ok
    /\ Unwrap(Unwrap(result).err).status_code = Some(500)

\* C3: the k-th backoff sleep lasts exactly 100 * 2^(k-1) ms; a sleep happens
\* only after a transport failure with a retry left; a call that exhausts its
\* attempts has slept exactly max_retries times, none after the last failure.
C3_BackoffDelays ==
    /\ \A k \in 1..Len(sleeps) : sleeps[k] = IdealDelay(k)
    /\ Len(sleeps) <= max_retries
    /\ pc = "sleep" => (IsSome(last_error) /\ attempt < max_retries
                        /\ Len(sleeps) = attempt + 1)
    /\ (pc = "done" /\ OnlyTransportFailures) => Len(sleeps) = max_retries

\* C4: with max_retries = 0 there is never a backoff sleep and never a second
\* send; the call that could send its request ends after exactly one send,
\* whether that send succeeded, got an HTTP error or failed in transport.
C4_ZeroRetriesOneAttempt ==
    max_retries = 0 =>
        /\ sleeps = <<>>
        /\ sends <= 1
        /\ pc \notin {"sleep", "panicked"}
        /\ (ExecEnded /\ cloneable) => sends = 1

C4_Witness ==
    /\ max_retries = 0 /\ pc = "done" /\ sends = 1 /\ responses = 0
    /\ sleeps = <<>> /\ ~Unwrap(result).ok

\* C5: when all max_retries + 1 sends failed in transport, the error returned
\* is the classification of the last failure (Timeout for a timeout, else
\* Network), whatever the earlier failures were.
C5_LastFailureReturned ==
    (pc = "done" /\ responses = 0 /\ sends = max_retries + 1) =>
        /\ result = Some(Err(from_reqwest(Unwrap(last_failure))))
        /\ Unwrap(Unwrap(result).err).kind =
              IF Unwrap(last_failure).timeout THEN "Timeout" ELSE "Network"

C5_Witness ==
    /\ pc = "done" /\ responses = 0 /\ sends = max_retries + 1
    /\ max_retries >= 2
    /\ first_failure = Some("Network")
    /\ Unwrap(Unwrap(result).err).kind = "Timeout"

(***************************************************************************)
(* from_http_status as a function of its inputs: the status and the body   *)
(* are drawn, one step applies the function.                               *)
(***************************************************************************)
ExtraStatuses == {500, 503}
Statuses == (MinStatus..MaxStatus) \cup ExtraStatuses

InitClassify ==
    /\ cl_pc = "input"
    /\ cl_status \in Statuses
    /\ cl_body \in {None} \cup {Some(b) : b \in Bodies}
    /\ cl_result = None
    /\ ClientIdle
    /\ ExecIdle
    /\ WaitIdle
    /\ TasksIdle
    /\ CallIdle

classify ==
    /\ cl_pc = "input"
    /\ cl_result' = Some(from_http_status(cl_status, cl_body))
    /\ cl_pc' = "classified"
    /\ UNCHANGED <<cl_status, cl_body>>
    /\ UNCHANGED <<clientVars, execVars, waitVars, taskVars, callVars, jobVars,
                   quietVars>>

NextClassify == classify

SpecClassify == InitClassify /\ [][NextClassify]_vars

\* C6: from_http_status maps every status >= 400 to a kind: 401 to
\* Authentication, 402 to InsufficientCredits, 400 and 422 to Validation, 429
\* to RateLimit, any other to Api; the error carries the status unchanged.
C6_StatusToKind ==
    (cl_pc = "classified" /\ cl_status >= 400) =>
        /\ IsSome(cl_result)
        /\ Unwrap(cl_result).status_code = Some(cl_status)
        /\ Unwrap(cl_result).kind =
              IF cl_status = 401 THEN "Authentication"
              ELSE IF cl_status = 402 THEN "InsufficientCredits"
              ELSE IF cl_status = 400 \/ cl_status = 422 THEN "Validation"
              ELSE IF cl_status = 429 THEN "RateLimit"
              ELSE "Api"

C6_Witness ==
    /\ cl_pc = "classified" /\ cl_status = 422
    /\ Unwrap(cl_result).kind = "Validation"
    /\ Unwrap(cl_result).status_code = Some(422)

\* C7: for a 429 the RateLimit error's retry_after is Some(n) exactly when the
\* body is a parseable error object with a retryAfter member of value n, and
\* None when the member is absent (or null) or the body does not parse.
C7_RetryAfterPropagated ==
    (cl_pc = "classified" /\ cl_status = 429) =>
        /\ Unwrap(cl_result).kind = "RateLimit"
        /\ Unwrap(cl_result).retry_after =
              IF /\ IsSome(cl_body)
                 /\ Unwrap(cl_body).json = "object"
                 /\ Unwrap(cl_body).error.tag # "other"
                 /\ Unwrap(cl_body).retryAfter.tag = "u32"
              THEN Some(Unwrap(cl_body).retryAfter.val)
              ELSE None

C7_Witness ==
    /\ cl_pc = "classified" /\ cl_status = 429
    /\ IsSome(cl_body) /\ Unwrap(cl_body).retryAfter = [tag |-> "u32", val |-> 30]
    /\ Unwrap(cl_result).retry_after = Some(30)

(***************************************************************************)
(* AsyncJob::status and AsyncJob::wait (async_job.rs:121-229).             *)
(*                                                                         *)
(* A JobStatusResponse (models.rs:183-203) is kept without its progress    *)
(* member, which only the debug line of status() reads.                    *)
(***************************************************************************)
JobStatuses == {"Pending", "Processing", "Completed", "Failed"}
JobIds == {"j1", "j2"}
Snapshots ==
    {[job_id |-> j, status |-> st, error |-> p[1], result |-> p[2]] :
        j \in JobIds, st \in JobStatuses,
        p \in {<<None, None>>, <<Some("boom"), None>>, <<None, Some("R")>>}}

\* Variant of is_in_progress that leaves Processing out.
is_in_progress_pending_only(st) == st = "Pending"

\* JobStatus::is_in_progress / is_finished  (models.rs:161-168)
is_in_progress(st) == st \in {"Pending", "Processing"}
is_finished(st) == st \in {"Completed", "Failed"}

(***************************************************************************)
(* What the transport answers to one status request: a failure of send(),  *)
(* or a response with its status code, the failure of response.text() if   *)
(* any, and the body as each of its two readers sees it: as an             *)
(* ApiErrorResponse (as_error) and as a JobStatusResponse (as_job, None    *)
(* when serde_json rejects it).                                            *)
(***************************************************************************)
Reply(send_err, status_code, text_err, as_error, as_job) ==
    [send_err |-> send_err, status_code |-> status_code, text_err |-> text_err,
     as_error |-> as_error, as_job |-> as_job]

ConnectError == [timeout |-> FALSE, connect |-> TRUE]
TimeoutError == [timeout |-> TRUE, connect |-> FALSE]

StatusReplies ==
    {Reply(None, 200, None, Garbage, Some(sn)) : sn \in Snapshots}
    \cup {Reply(Some(ConnectError), 0, None, Garbage, None),
          Reply(None, 200, Some(TimeoutError), Garbage, None),
          Reply(None, 200, None, Garbage, None),
          Reply(None, 302, None, Garbage, None),
          Reply(None, 401, None, Garbage, None),
          Reply(None, 404, None, Garbage, None),
          Reply(None, 429, None,
                [json |-> "object", error |-> [tag |-> "string", val |-> "Slow down"],
                 retryAfter |-> [tag |-> "u32", val |-> 30], extra |-> FALSE],
                None),
          Reply(None, 500, None, Garbage,
                Some([job_id |-> "j1", status |-> "Completed",
                      error |-> None, result |-> Some("R")]))}

\* Variant of status that reads the body as a snapshot before it looks at
\* the status code.
status_parsing_first(reply) ==
    IF IsSome(reply.send_err)
    THEN Err(from_reqwest(Unwrap(reply.send_err)))
    ELSE IF IsSome(reply.text_err)
    THEN Err(from_reqwest(Unwrap(reply.text_err)))
    ELSE IF IsSome(reply.as_job)
    THEN Ok(Unwrap(reply.as_job))
    ELSE IF reply.status_code >= 400
    THEN Err(from_http_status(reply.status_code, Some(reply.as_error)))
    ELSE Err(RenamedError("Serialization", Msg("{err}"), None, None, None, None))

\* AsyncJob::status: one request, no retry  (async_job.rs:121-158)
status(reply) ==
    IF IsSome(reply.send_err)
    THEN Err(from_reqwest(Unwrap(reply.send_err)))
    ELSE IF IsSome(reply.text_err)
    THEN Err(from_reqwest(Unwrap(reply.text_err)))
    ELSE IF reply.status_code >= 400
    THEN Err(from_http_status(reply.status_code, Some(reply.as_error)))
    ELSE IF ~IsSome(reply.as_job)
    THEN Err(RenamedError("Serialization", Msg("{err}"), None, None, None, None))
    ELSE Ok(Unwrap(reply.as_job))

\* Variant of poll_left with an inclusive range.
poll_left_inclusive == wattempt <= max_attempts

\* `_attempt in 0..self.max_attempts`: a poll is left  (async_job.rs:195)
poll_left == wattempt < max_attempts

\* Variant of invoke_callback that skips the terminal snapshot.
invoke_callback_in_progress_only(snapshot) ==
    IF on_progress = "none" \/ is_finished(snapshot.status) THEN callbacks
    ELSE Append(callbacks, snapshot)

\* if let Some(ref callback) = on_progress { callback(&status) }
\* (async_job.rs:199-201): the snapshots the callback has been handed
invoke_callback(snapshot) ==
    IF on_progress = "none" THEN callbacks ELSE Append(callbacks, snapshot)

\* Variant of failed_job_error that does not thread the job id through.
failed_job_error_without_id(snapshot) ==
    job_error(IF IsSome(snapshot.error) THEN Msg(Unwrap(snapshot.error))
              ELSE Msg("Job failed"),
              None)

\* The error for a Failed snapshot  (async_job.rs:214-219)
failed_job_error(snapshot) ==
    job_error(IF IsSome(snapshot.error) THEN Msg(Unwrap(snapshot.error))
              ELSE Msg("Job failed"),
              Some(snapshot.job_id))

\* Variant of completed_outcome that reports a missing result as the timeout.
completed_outcome_as_timeout(snapshot) ==
    IF IsSome(snapshot.result) THEN Ok(Unwrap(snapshot.result))
    ELSE Err(job_error(Msg("Job polling timeout exceeded"), None))

\* The outcome for a Completed snapshot  (async_job.rs:204-211)
completed_outcome(snapshot) ==
    IF IsSome(snapshot.result) THEN Ok(Unwrap(snapshot.result))
    ELSE Err(job_error(Msg("Job completed but no result returned"),
                       Some(snapshot.job_id)))

\* Variant of is_completed that also takes any snapshot carrying a result.
is_completed_or_has_result(snapshot) ==
    snapshot.status = "Completed" \/ IsSome(snapshot.result)

\* The arm `JobStatus::Completed =>` of the match  (async_job.rs:203-204)
is_completed(snapshot) == snapshot.status = "Completed"

\* Variant of sleeps_started that skips the sleep after the last attempt.
sleeps_started_unless_last ==
    IF wattempt + 1 < max_attempts THEN wsleeps + 1 ELSE wsleeps

\* tokio::time::sleep(self.poll_interval).await, reached whenever the match
\* did not return: the sleeps started so far  (async_job.rs:222)
sleeps_started == wsleeps + 1

\* Variant of status_failure that wraps the failure into a Job error.
status_failure_as_job(r) == Err(job_error(Unwrap(r.err).message, None))

\* `self.status().await?`: what wait returns when status() failed
\* (async_job.rs:196)
status_failure(r) == r

\* Variant of at_await for a sleep that blocks the thread.
at_await_not_in_sleep == wpc = "status"

\* wait is suspended at an .await: inside self.status().await or inside
\* tokio::time::sleep(..).await  (async_job.rs:196, 222)
at_await == wpc \in {"status", "sleep"}

\* The error once the poll budget is spent  (async_job.rs:225-228)
timeout_error == job_error(Msg("Job polling timeout exceeded"), None)

\* const DEFAULT_POLL_INTERVAL: Duration = Duration::from_secs(2)
DEFAULT_POLL_INTERVAL == 2
\* const MAX_POLL_ATTEMPTS: u32 = 150
MAX_POLL_ATTEMPTS == 150

\* the status URLs the server hands out with a job
StatusUrls == {"https://www.renamed.to/api/v1/status/j1",
               "https://www.renamed.to/api/v1/status/j2"}

\* a call of one of the with_* methods
Built(fn, arg) == [fn |-> fn, arg |-> arg]

\* AsyncJob::new with with_max_attempts, and the call of wait
\* (async_job.rs:73-109, 194-195)
InitWait ==
    /\ max_attempts \in 0..MaxPollAttempts
    /\ on_progress \in {"none", "record", "panic"}
    /\ wpc = "loop" /\ wattempt = 0 /\ wresult = None /\ calls = 0
    /\ received = <<>> /\ callbacks = <<>> /\ wsleeps = 0 /\ last_reply = None
    /\ status_url = "https://www.renamed.to/api/v1/status/j1"
    /\ poll_interval = DEFAULT_POLL_INTERVAL
    /\ last_built = Some(Built("with_max_attempts", max_attempts))
    /\ waits = 1 /\ slept = 0 /\ prev_result = None
    /\ ClientIdle
    /\ ExecIdle
    /\ ClassifyIdle
    /\ TasksIdle
    /\ CallIdle

\* The loop head: the next self.status() call, or the timeout error
\* (async_job.rs:195-196, 225-228)
wait_loop ==
    /\ wpc = "loop"
    /\ IF poll_left
       THEN /\ calls' = calls + 1
            /\ wpc' = "status"
            /\ UNCHANGED wresult
       ELSE /\ wresult' = Some(Err(timeout_error))
            /\ wpc' = "done"
            /\ UNCHANGED calls
    /\ UNCHANGED <<max_attempts, on_progress, wattempt, received, callbacks,
                   wsleeps, last_reply>>
    /\ UNCHANGED <<clientVars, execVars, classifyVars, taskVars, callVars, jobVars,
                   quietVars>>

\* self.status().await returns; `?`, the callback, the inspection of the
\* snapshot up to the sleep  (async_job.rs:196-222)
wait_status(reply) ==
    /\ wpc = "status"
    /\ LET r == status(reply) IN
       IF ~r.ok
       THEN /\ wresult' = Some(status_failure(r))
            /\ wpc' = "done"
            /\ UNCHANGED <<received, callbacks, wsleeps>>
       ELSE LET snapshot == Unwrap(r.value) IN
            /\ received' = Append(received, snapshot)
            /\ callbacks' = invoke_callback(snapshot)
            /\ IF on_progress = "panic"
               THEN /\ wpc' = "panicked"
                    /\ UNCHANGED <<wresult, wsleeps>>
               ELSE IF is_completed(snapshot)
               THEN /\ wresult' = Some(completed_outcome(snapshot))
                    /\ wpc' = "done"
                    /\ UNCHANGED wsleeps
               ELSE IF snapshot.status = "Failed"
               THEN /\ wresult' = Some(Err(failed_job_error(snapshot)))
                    /\ wpc' = "done"
                    /\ UNCHANGED wsleeps
               ELSE /\ wsleeps' = sleeps_started
                    /\ wpc' = "sleep"
                    /\ UNCHANGED wresult
    /\ last_reply' = Some(reply)
    /\ slept' = IF wpc' = "sleep" THEN slept + poll_interval ELSE slept
    /\ UNCHANGED <<max_attempts, on_progress, wattempt, calls>>
    /\ UNCHANGED <<status_url, poll_interval, last_built, waits, prev_result>>
    /\ UNCHANGED <<clientVars, execVars, classifyVars, taskVars, callVars,
                   quietVars>>

\* tokio::time::sleep(self.poll_interval) returns  (async_job.rs:222-223)
wait_sleep_done ==
    /\ wpc = "sleep"
    /\ wattempt' = wattempt + 1
    /\ wpc' = "loop"
    /\ UNCHANGED <<max_attempts, on_progress, wresult, calls, received,
                   callbacks, wsleeps, last_reply>>
    /\ UNCHANGED <<clientVars, execVars, classifyVars, taskVars, callVars, jobVars,
                   quietVars>>

\* The caller drops the future of wait while it is suspended (select!, a
\* timeout, an aborted task): nothing of it runs afterwards
\* (async_job.rs:194, 196, 222)
wait_cancel ==
    /\ at_await
    /\ wpc' = "cancelled"
    /\ UNCHANGED <<max_attempts, on_progress, wattempt, wresult, calls,
                   received, callbacks, wsleeps, last_reply>>
    /\ UNCHANGED <<clientVars, execVars, classifyVars, taskVars, callVars, jobVars,
                   quietVars>>

NextWait ==
    \/ wait_loop
    \/ \E reply \in StatusReplies : wait_status(reply)
    \/ wait_sleep_done
    \/ wait_cancel

SpecWait == InitWait /\ [][NextWait]_vars

(***************************************************************************)
(* Claims about wait, checked under SpecWait.                              *)
(***************************************************************************)
Last(seq) == seq[Len(seq)]
\* every status() call so far returned a snapshot
AllCallsAnswered == Len(received) = calls
\* the snapshots before the last one are all in progress
OnlyLastMayBeTerminal ==
    \A i \in 1..(Len(received) - 1) : is_in_progress(received[i].status)

\* C8: when the first terminal snapshot is the n-th one (n <= max_attempts),
\* wait has made exactly n status calls and a callback that returns has been
\* handed exactly those n snapshots, each once and in the order received, the
\* terminal one included; wait returns R when that snapshot is Completed with
\* result R.
C8_CallsAndCallbacksUpToTerminal ==
    /\ on_progress = "record" => callbacks = received
    /\ (/\ on_progress # "panic"
        /\ wpc = "done"
        /\ received # <<>>
        /\ is_finished(Last(received).status)) =>
            /\ calls = Len(received)
            /\ on_progress = "record" => Len(callbacks) = calls
            /\ calls <= max_attempts
            /\ OnlyLastMayBeTerminal
            /\ (Last(received).status = "Completed" /\ IsSome(Last(received).result))
                  => wresult = Some(Ok(Unwrap(Last(received).result)))

C8_Witness ==
    /\ wpc = "done" /\ on_progress = "record" /\ calls = 3
    /\ Len(received) = 3
    /\ received[1].status = "Pending"
    /\ received[2].status = "Processing"
    /\ received[3].status = "Completed"
    /\ callbacks = received
    /\ wresult = Some(Ok("R"))

\* C9: with max_attempts = N and a job that is always Pending or Processing,
\* wait makes exactly N status calls, never one more, and then returns the
\* Job error "Job polling timeout exceeded" whose job id is absent.
C9_PollBudgetAndTimeout ==
    /\ calls <= max_attempts
    /\ (/\ wpc = "done"
        /\ AllCallsAnswered
        /\ \A i \in 1..Len(received) : is_in_progress(received[i].status)) =>
            /\ calls = max_attempts
            /\ ~Unwrap(wresult).ok
            /\ Unwrap(Unwrap(wresult).err).kind = "Job"
            /\ Unwrap(Unwrap(wresult).err).message = Msg("Job polling timeout exceeded")
            /\ Unwrap(Unwrap(wresult).err).job_id = None

C9_Witness ==
    /\ wpc = "done" /\ max_attempts = 3 /\ calls = 3 /\ Len(received) = 3
    /\ \A i \in 1..3 : received[i].status = "Processing" /\ received[i].job_id = "j1"
    /\ Unwrap(Unwrap(wresult).err).kind = "Job"
    /\ Unwrap(Unwrap(wresult).err).job_id = None

\* C10: a Failed snapshot ends the polling: wait returns a Job error whose
\* message is the snapshot's error message, or "Job failed" when it has none,
\* and whose job id is the snapshot's jobId; no status call follows.
C10_FailedSnapshot ==
    /\ [](/\ received # <<>>
          /\ Last(received).status = "Failed"
          /\ on_progress # "panic"
          => /\ wpc = "done"
             /\ ~Unwrap(wresult).ok
             /\ Unwrap(Unwrap(wresult).err).kind = "Job"
             /\ Unwrap(Unwrap(wresult).err).message =
                   IF IsSome(Last(received).error)
                   THEN Msg(Unwrap(Last(received).error))
                   ELSE Msg("Job failed")
             /\ Unwrap(Unwrap(wresult).err).job_id = Some(Last(received).job_id))
    /\ [][(received # <<>> /\ Last(received).status = "Failed")
            => calls' = calls]_vars

C10_Witness ==
    /\ wpc = "done" /\ Len(received) = 2
    /\ received[1].job_id = "j2"
    /\ Last(received) = [job_id |-> "j1", status |-> "Failed",
                         error |-> Some("boom"), result |-> None]
    /\ Unwrap(Unwrap(wresult).err).message = Msg("boom")
    /\ Unwrap(Unwrap(wresult).err).job_id = Some("j1")

\* C11: a Completed snapshot without a result payload ends the polling: no
\* status call follows, and wait returns the Job error "Job completed but no
\* result returned" carrying the snapshot's jobId, which differs from the
\* polling-timeout error and from the error of every Failed snapshot.
C11_CompletedWithoutResult ==
    /\ [](/\ received # <<>>
          /\ Last(received).status = "Completed"
          /\ ~IsSome(Last(received).result)
          /\ on_progress # "panic"
          => /\ wpc = "done"
             /\ ~Unwrap(wresult).ok
             /\ Unwrap(Unwrap(wresult).err).kind = "Job"
             /\ Unwrap(Unwrap(wresult).err).message =
                   Msg("Job completed but no result returned")
             /\ Unwrap(Unwrap(wresult).err).job_id = Some(Last(received).job_id)
             /\ Unwrap(Unwrap(wresult).err) # timeout_error
             /\ \A sn \in Snapshots :
                   Unwrap(Unwrap(wresult).err) # failed_job_error(sn))
    /\ [][(/\ received # <<>>
           /\ Last(received).status = "Completed"
           /\ ~IsSome(Last(received).result)) => calls' = calls]_vars

C11_Witness ==
    /\ wpc = "done" /\ calls = 2 /\ max_attempts = 3 /\ Len(received) = 2
    /\ received[1].status = "Processing"
    /\ Last(received) = [job_id |-> "j2", status |-> "Completed",
                         error |-> None, result |-> None]
    /\ Unwrap(Unwrap(wresult).err).message =
          Msg("Job completed but no result returned")

\* the latest status() call of this wait returned an error
StatusFailed == IsSome(last_reply) /\ ~status(Unwrap(last_reply)).ok

\* C12: when a status() call inside wait fails, wait returns that very error
\* (its kind is the request's, never Job) at once: no status call, no sleep
\* and no callback invocation follows, and the callback has been handed only
\* the snapshots of the earlier, successful checks.
C12_StatusFailurePropagated ==
    /\ [](StatusFailed =>
            /\ wpc = "done"
            /\ wresult = Some(status(Unwrap(last_reply)))
            /\ Unwrap(Unwrap(wresult).err).kind \in
                  {"Network", "Timeout", "Authentication", "RateLimit", "Api",
                   "Serialization"}
            /\ calls = Len(received) + 1
            /\ wsleeps = Len(received)
            /\ Len(callbacks) = IF on_progress = "none" THEN 0 ELSE Len(received))
    /\ [][StatusFailed =>
            /\ calls' = calls
            /\ wsleeps' = wsleeps
            /\ callbacks' = callbacks]_vars

C12_Witness ==
    /\ wpc = "done" /\ on_progress = "record" /\ max_attempts = 3
    /\ calls = 2 /\ Len(received) = 1 /\ received[1].status = "Pending"
    /\ callbacks = received /\ wsleeps = 1
    /\ last_reply = Some(Reply(Some(ConnectError), 0, None, Garbage, None))
    /\ Unwrap(Unwrap(wresult).err).kind = "Network"

\* C13: a progress callback that panics neither aborts nor alters the
\* polling: after every snapshot handed to it wait is still running, and a
\* terminal snapshot ends wait with the outcome it has without a callback.
C13_CallbackCannotAbort ==
    (on_progress = "panic" /\ received # <<>>) =>
        /\ wpc # "panicked"
        /\ Last(received).status = "Completed" =>
              wpc = "done" /\ wresult = Some(completed_outcome(Last(received)))
        /\ Last(received).status = "Failed" =>
              wpc = "done" /\ wresult = Some(Err(failed_job_error(Last(received))))

C16_StatusClassification ==
    IsSome(last_reply) =>
        LET reply == Unwrap(last_reply)
            transport == IF IsSome(reply.send_err) THEN reply.send_err
                         ELSE reply.text_err
            e == Unwrap(Unwrap(wresult).err)
        IN  IF IsSome(transport)
            THEN /\ wpc = "done" /\ ~Unwrap(wresult).ok
                 /\ e.kind = IF Unwrap(transport).timeout THEN "Timeout" ELSE "Network"
                 /\ e.status_code = None
            ELSE IF reply.status_code >= 400
            THEN /\ wpc = "done" /\ ~Unwrap(wresult).ok
                 /\ e.kind = CASE reply.status_code = 401 -> "Authentication"
                               [] reply.status_code = 402 -> "InsufficientCredits"
                               [] reply.status_code \in {400, 422} -> "Validation"
                               [] reply.status_code = 429 -> "RateLimit"
                               [] OTHER -> "Api"
                 /\ e.status_code = Some(reply.status_code)
            ELSE IF ~IsSome(reply.as_job)
            THEN /\ wpc = "done" /\ ~Unwrap(wresult).ok
                 /\ e.kind = "Serialization"
            ELSE received # <<>> /\ Last(received) = Unwrap(reply.as_job)

C16_Witness ==
    /\ wpc = "done"
    /\ IsSome(last_reply)
    /\ Unwrap(last_reply).status_code = 500
    /\ IsSome(Unwrap(last_reply).as_job)
    /\ Unwrap(Unwrap(wresult).err).kind = "Api"
    /\ Unwrap(Unwrap(wresult).err).status_code = Some(500)

(***************************************************************************)
(* Termination.  One call, of execute_request or of wait, on a transport   *)
(* and a timer that answer: every send and every status request gets its   *)
(* response or its failure, every sleep returns, the code between two      *)
(* suspension points runs.  Dropping the future of wait stays possible and *)
(* is not forced.                                                          *)
(***************************************************************************)
InitCalls == Init \/ InitWait

NextCalls == Next \/ NextWait

wait_progress ==
    \/ wait_loop
    \/ \E reply \in StatusReplies : wait_status(reply)
    \/ wait_sleep_done

FairSpecCalls ==
    /\ InitCalls
    /\ [][NextCalls]_vars
    /\ WF_vars(Next)
    /\ WF_vars(wait_progress)

\* the call under way has ended: it returned, or it unwound by a panic, or
\* its future was dropped
CallEnded ==
    \/ pc \in {"done", "panicked"}
    \/ wpc \in {"done", "panicked", "cancelled"}

\* C18: every execute_request call and every wait call ends: execute_request
\* never sends more than max_retries + 1 times, wait never makes more than
\* max_attempts status calls, and on a transport and a timer that answer
\* each of them eventually ends.
C18_CallsTerminate ==
    /\ [](sends <= max_retries + 1 /\ calls <= max_attempts)
    /\ <>CallEnded

C18_Witness ==
    \/ /\ pc = "done" /\ max_retries = 2 /\ sends = 3 /\ Len(sleeps) = 2
       /\ ~Unwrap(result).ok
    \/ /\ wpc = "done" /\ max_attempts = 3 /\ calls = 3 /\ wsleeps = 3
       /\ wresult = Some(Err(timeout_error))

(***************************************************************************)
(* Strings.  A String is the sequence of its chars; its len() and its      *)
(* slices count bytes of the UTF-8 encoding, and a slice whose end is not  *)
(* on a char boundary panics.                                              *)
(***************************************************************************)
MaxKeyChars == 9        \* an api key has 0..MaxKeyChars chars
Str(text, panicked) == [panicked |-> panicked, text |-> text]

\* char::len_utf8
len_utf8(c) == IF c = "é" THEN 2 ELSE 1

\* str::len: the number of bytes
RECURSIVE len(_)
len(s) == IF s = <<>> THEN 0 ELSE len_utf8(s[1]) + len(Tail(s))

\* the number of chars of s that end within its first i bytes
chars_within(s, i) ==
    Cardinality({k \in 1..Len(s) : len(SubSeq(s, 1, k)) <= i})

\* str::is_char_boundary
is_char_boundary(s, i) == len(SubSeq(s, 1, chars_within(s, i))) = i

\* &s[..i] and &s[i..]: None stands for the panic of a slice off a boundary
slice_to(s, i) ==
    IF is_char_boundary(s, i) THEN Some(SubSeq(s, 1, chars_within(s, i))) ELSE None
slice_from(s, i) ==
    IF is_char_boundary(s, i)
    THEN Some(SubSeq(s, chars_within(s, i) + 1, Len(s))) ELSE None

\* Variant of mask_api_key that logs the key as it is.
mask_api_key_unmasked(key) == Str(key, FALSE)

\* RenamedClient::mask_api_key  (client.rs:208-216)
mask_api_key(key) ==
    IF len(key) <= 7
    THEN Str(<<"*", "*", "*">>, FALSE)
    ELSE LET prefix == slice_to(key, 3)
             suffix == slice_from(key, len(key) - 4)
         IN  IF ~IsSome(prefix) \/ ~IsSome(suffix)
             THEN Str(<<>>, TRUE)
             ELSE Str(Unwrap(prefix) \o <<".", ".", ".">> \o Unwrap(suffix), FALSE)

RECURSIVE SeqsUpTo(_, _)
SeqsUpTo(A, n) ==
    IF n = 0 THEN {<<>>}
    ELSE LET shorter == SeqsUpTo(A, n - 1)
         IN  shorter \cup {Append(q, a) : q \in {r \in shorter : Len(r) = n - 1}, a \in A}

Keys ==
    SeqsUpTo({"a", "é"}, MaxKeyChars)
    \cup {<<"1", "2", "3", "4", "5", "6", "7", "8">>}

\* mask_api_key applied to self.api_key = key
InitMask ==
    /\ call = "mask_api_key"
    /\ \E key \in Keys : call_args = <<key>>
    /\ call_result = None
    /\ ClientIdle
    /\ ExecIdle
    /\ ClassifyIdle
    /\ WaitIdle
    /\ TasksIdle

apply_mask_api_key ==
    /\ call = "mask_api_key" /\ call_result = None
    /\ call_result' = Some(mask_api_key(call_args[1]))
    /\ UNCHANGED <<call, call_args>>
    /\ UNCHANGED <<clientVars, execVars, classifyVars, waitVars, taskVars,
                   jobVars, quietVars>>

NextMask == apply_mask_api_key

SpecMask == InitMask /\ [][NextMask]_vars

\* C22: mask_api_key renders a key of at most 7 characters as "***" and a
\* longer key as its first 3 characters, "..." and its last 4 characters,
\* nothing of the characters in between.
C22_MaskApiKey ==
    (call = "mask_api_key" /\ IsSome(call_result)) =>
        LET key == call_args[1] IN
        /\ ~Unwrap(call_result).panicked
        /\ Unwrap(call_result).text =
              IF Len(key) <= 7 THEN <<"*", "*", "*">>
              ELSE SubSeq(key, 1, 3) \o <<".", ".", ".">>
                   \o SubSeq(key, Len(key) - 3, Len(key))

(***************************************************************************)
(* RenamedClientBuilder::base_url and RenamedClient::build_url             *)
(* (client.rs:75-78, 197-203), applied to a configured base and a path.    *)
(***************************************************************************)
MaxPathChars == 4       \* a path is a prefix of PathPrefixes and 0..MaxPathChars more chars
HttpScheme == <<"h", "t", "t", "p", ":", "/", "/">>
HttpsScheme == <<"h", "t", "t", "p", "s", ":", "/", "/">>

\* str::starts_with
starts_with(s, p) == Len(s) >= Len(p) /\ SubSeq(s, 1, Len(p)) = p

\* str::trim_start_matches(c) and str::trim_end_matches(c)
RECURSIVE trim_start_matches(_, _)
trim_start_matches(s, c) ==
    IF s # <<>> /\ s[1] = c THEN trim_start_matches(Tail(s), c) ELSE s
RECURSIVE trim_end_matches(_, _)
trim_end_matches(s, c) ==
    IF s # <<>> /\ s[Len(s)] = c
    THEN trim_end_matches(SubSeq(s, 1, Len(s) - 1), c) ELSE s

\* Variant of base_url that keeps the url as given.
base_url_as_given(url) == url

\* RenamedClientBuilder::base_url: the member it sets  (client.rs:75-78)
base_url(url) == trim_end_matches(url, "/")

\* RenamedClient::build_url  (client.rs:197-203)
build_url(base, path) ==
    IF starts_with(path, HttpScheme) \/ starts_with(path, HttpsScheme)
    THEN path
    ELSE base \o <<"/">> \o trim_start_matches(path, "/")

ConfiguredBases ==
    {HttpsScheme \o <<"a", "/", "b">> \o tail :
        tail \in {<<>>, <<"/">>, <<"/", "/">>}}
    \cup {<<>>, <<"/">>}
    \cup {<<"H", "T", "T", "P", "S", ":", "/", "/", "a">>,
          <<"H", "t", "t", "p", ":", "/", "/", "a", "/">>}
PathPrefixes ==
    {<<>>, HttpScheme, HttpsScheme, <<"h", "t", "t", "p", ":", "/">>, <<"/">> \o HttpsScheme}
Paths == {pre \o rest : pre \in PathPrefixes, rest \in SeqsUpTo({"/", "r"}, MaxPathChars)}

\* build_url applied to a path, on a client built with base_url(url)
InitUrl ==
    /\ call = "build_url"
    /\ \E url \in ConfiguredBases, path \in Paths : call_args = <<url, path>>
    /\ call_result = None
    /\ ClientIdle
    /\ ExecIdle
    /\ ClassifyIdle
    /\ WaitIdle
    /\ TasksIdle

apply_build_url ==
    /\ call = "build_url" /\ call_result = None
    /\ call_result' = Some(Str(build_url(base_url(call_args[1]), call_args[2]), FALSE))
    /\ UNCHANGED <<call, call_args>>
    /\ UNCHANGED <<clientVars, execVars, classifyVars, waitVars, taskVars,
                   jobVars, quietVars>>

NextUrl == apply_build_url

SpecUrl == InitUrl /\ [][NextUrl]_vars

\* the longest prefix of s that does not end with a slash
WithoutTrailingSlashes(s) ==
    LET keep == {k \in 0..Len(s) : k = 0 \/ s[k] # "/"}
        n == CHOOSE k \in keep : \A j \in keep : j <= k
    IN  SubSeq(s, 1, n)
IsAbsolute(path) ==
    \/ (Len(path) >= 7 /\ SubSeq(path, 1, 7) = HttpScheme)
    \/ (Len(path) >= 8 /\ SubSeq(path, 1, 8) = HttpsScheme)

\* C23: build_url returns a path that begins with http:// or https://
\* unchanged; any other path is appended to the configured base with exactly
\* one slash between them: the base contributes none of its trailing
\* slashes and the path none of its leading ones, so that the path and the
\* path with a slash put in front resolve to the same URL.
C23_BuildUrl ==
    (call = "build_url" /\ IsSome(call_result)) =>
        LET url == call_args[1]
            path == call_args[2]
            base == WithoutTrailingSlashes(url)
            out == Unwrap(call_result).text
            n == Len(base)
        IN  IF IsAbsolute(path)
            THEN out = path
            ELSE /\ Len(out) > n
                 /\ SubSeq(out, 1, n) = base
                 /\ out[n + 1] = "/"
                 /\ Len(out) > n + 1 => out[n + 2] # "/"
                 /\ \E k \in 0..Len(path) :
                       /\ \A j \in 1..k : path[j] = "/"
                       /\ SubSeq(out, n + 2, Len(out)) = SubSeq(path, k + 1, Len(path))
                 /\ out = build_url(base_url(url), <<"/">> \o path)

C23_Witness ==
    /\ call = "build_url"
    /\ call_args = <<HttpsScheme \o <<"a", "/", "b", "/">>, <<"/", "r", "r">>>>
    /\ call_result = Some(Str(HttpsScheme \o <<"a", "/", "b", "/", "r", "r">>, FALSE))

(***************************************************************************)
(* Concurrent calls.  Each task of Tasks runs one call, of execute_request *)
(* (through get / upload_file), of AsyncJob::wait or of download_file, on  *)
(* the same RenamedClient; the jobs hold a clone of its Arc<reqwest::      *)
(* Client> and of its api_key (client.rs:605-610).  A call's locals        *)
(* (attempt, last_error) are the task's components of tattempt and         *)
(* tlast_error.  The callback of wait is None here.                        *)
(***************************************************************************)
ApiKeys ==
    {<<"r", "t", "_", "1", "2", "3", "4", "5", "6">>, <<"s", "k">>,
     <<"é", "é", "é", "é">>}
Ops == {"execute_request", "wait", "download_file"}

\* A line handed to info!, debug! or warn!: the text it shows of the api key
\* (<<>> when it shows none), its other string arguments, its integer
\* arguments and the delay of the retry line.
LogLine(site, key_text, words, numbers, delay) ==
    [site |-> site, key_text |-> key_text, words |-> words, numbers |-> numbers,
     delay |-> delay]

\* info!("[Renamed] Client initialized (api_key: {}, base_url: {})", ..)
\* (client.rs:130-136)
initialized_line(key) ==
    LogLine("Client initialized", mask_api_key(key).text,
            <<"https://www.renamed.to/api/v1">>, <<>>, Zero)

\* debug!("[Renamed] Upload: {} ({})", filename, size)  (client.rs:411-417)
upload_line == LogLine("Upload", <<>>, <<"file.pdf", "1.0 KB">>, <<>>, Zero)

\* warn!("[Renamed] Retry attempt {}/{}, waiting {}ms", ..)  (client.rs:283-289)
retry_line(a) ==
    LogLine("Retry attempt", <<>>, <<>>, <<a, max_retries>>, log_delay_ms(a))

\* debug!("[Renamed] {} {} -> {} ({}ms)", method, extract_path(path), ..)
\* (client.rs:297-305, 759-766)
response_line(method, path, status_code) ==
    LogLine("response", <<>>, <<method, path>>, <<status_code>>, Zero)

\* debug!("[Renamed] Job {}: {}{} ({}ms)", self.extract_job_id(), status, ..)
\* (async_job.rs:143-155)
job_line(snapshot) ==
    LogLine("Job", <<>>, <<"abc123", snapshot.status>>, <<>>, Zero)

\* the lines a step emits: none unless debug is on
emit(lines) == IF debug THEN logged \cup lines ELSE logged

\* format!("Bearer {}", key)
bearer(key) == <<"Bearer", key>>

\* Variant of request that sets no header.
request_without_header(key, body_cloneable) ==
    [authorization |-> None, cloneable |-> body_cloneable]

\* RenamedClient::request with the body the caller adds: the builder carries
\* the Authorization header; a multipart stream body makes it uncloneable
\* (client.rs:254-264, 420-423, 473)
request(key, body_cloneable) ==
    [authorization |-> Some(bearer(key)), cloneable |-> body_cloneable]

\* Variant of try_clone whose copy loses the headers.
try_clone_without_headers(req) ==
    IF req.cloneable THEN Some([req EXCEPT !.authorization = None]) ELSE None

\* request.try_clone(): a copy with the same headers, or None  (client.rs:277)
try_clone(req) == IF req.cloneable THEN Some(req) ELSE None

\* self.client.get(&self.status_url).header("Authorization", ..)
\* (async_job.rs:124-127)
status_request(key) == [authorization |-> Some(bearer(key)), cloneable |-> TRUE]

\* self.client.get(url).header("Authorization", ..)  (client.rs:747-751)
download_request(key) == [authorization |-> Some(bearer(key)), cloneable |-> TRUE]

\* what the transport may answer to a request of each kind of call
TransportFailures ==
    {Reply(Some(ConnectError), 0, None, Garbage, None),
     Reply(Some(TimeoutError), 0, None, Garbage, None)}
PendingSnapshot ==
    [job_id |-> "j1", status |-> "Pending", error |-> None, result |-> None]
CompletedSnapshot ==
    [job_id |-> "j1", status |-> "Completed", error |-> None, result |-> Some("R")]
FailedSnapshot ==
    [job_id |-> "j1", status |-> "Failed", error |-> Some("boom"), result |-> None]
\* a failure of response.text() that is neither a timeout nor a connect error
BodyError == [timeout |-> FALSE, connect |-> FALSE]

TaskReplies(o) ==
    CASE o = "execute_request" ->
            TransportFailures \cup
            {Reply(None, 200, None, Garbage, None),
             Reply(None, 302, None, Garbage, None),
             Reply(None, 500, None, Garbage, None),
             Reply(None, 200, Some(TimeoutError), Garbage, None),
             Reply(None, 200, Some(BodyError), Garbage, None),
             Reply(None, 500, Some(TimeoutError), Garbage, None)}
      [] o = "wait" ->
            {Reply(Some(ConnectError), 0, None, Garbage, None),
             Reply(None, 500, None, Garbage, None),
             Reply(None, 200, None, Garbage, Some(PendingSnapshot)),
             Reply(None, 200, None, Garbage, Some(CompletedSnapshot)),
             Reply(None, 200, None, Garbage, Some(FailedSnapshot))}
      [] OTHER ->
            {Reply(Some(ConnectError), 0, None, Garbage, None),
             Reply(None, 200, None, Garbage, None),
             Reply(None, 200, Some(TimeoutError), Garbage, None),
             Reply(None, 404, None, Garbage, None)}

RECURSIVE SumOver(_, _)
SumOver(f, S) ==
    IF S = {} THEN 0
    ELSE LET x == CHOOSE y \in S : TRUE IN f[x] + SumOver(f, S \ {x})

\* Variant of task_attempt for a counter kept in the client.
task_attempt_shared(t) == SumOver(tattempt, Tasks)

\* The loop variable a call reads: its own  (client.rs:276, async_job.rs:195)
task_attempt(t) == tattempt[t]

\* The last_error a call reads: its own local  (client.rs:274, 324)
task_last_error(t) == tlast_error[t]

\* The requests in flight on the shared reqwest::Client.
InFlight == {t \in Tasks : tpc[t] = "send"}

\* Variant of transport_accepts for a transport that takes one request at a time.
transport_accepts_one_at_a_time(t) == InFlight \ {t} = {}

\* self.client.get(..).send() / req.send(): the shared client is behind an
\* Arc, no lock is taken and no request waits for another
\* (client.rs:291, 605-610, 748-753; async_job.rs:124-129)
transport_accepts(t) == TRUE

\* RenamedClientBuilder::build, and for every task the call it is about to
\* make  (client.rs:116-139, 273-276, 745; async_job.rs:73-109, 194-195)
InitTasks ==
    /\ max_retries \in 0..MaxTaskRetries
    /\ debug \in BOOLEAN /\ overflow_checks = FALSE /\ cloneable = TRUE
    /\ api_key \in ApiKeys
    /\ ~(debug /\ mask_api_key(api_key).panicked)
    /\ op \in [Tasks -> Ops]
    /\ \E body_cloneable \in [Tasks -> BOOLEAN] :
          trequest = [t \in Tasks |->
                        IF op[t] = "execute_request"
                        THEN request(api_key, body_cloneable[t]) ELSE NoRequest]
    /\ \E n \in [Tasks -> 0..MaxTaskPolls] :
          tmax_attempts = [t \in Tasks |-> IF op[t] = "wait" THEN n[t] ELSE 0]
    /\ tpc = [t \in Tasks |-> "loop"]
    /\ tattempt = [t \in Tasks |-> 0]
    /\ tlast_error = [t \in Tasks |-> None]
    /\ tresult = [t \in Tasks |-> None]
    /\ tsent = [t \in Tasks |-> <<>>]
    /\ tseen = [t \in Tasks |-> <<>>]
    /\ logged = IF debug
                THEN {initialized_line(api_key)} \cup
                     {upload_line : t \in {u \in Tasks : op[u] = "execute_request"
                                                         /\ ~trequest[u].cloneable}}
                ELSE {}
    /\ ExecIdle
    /\ ClassifyIdle
    /\ WaitIdle
    /\ CallIdle

\* execute_request, the loop head  (client.rs:276-291, 324-327)
task_execute_request_loop(t) ==
    /\ op[t] = "execute_request" /\ tpc[t] = "loop"
    /\ IF task_attempt(t) > max_retries
       THEN /\ tresult' = [tresult EXCEPT ![t] =
                  Some(Err(IF IsSome(task_last_error(t))
                           THEN Unwrap(task_last_error(t))
                           ELSE RenamedError("Network",
                                    Msg("Request failed after retries"),
                                    None, None, None, None)))]
            /\ tpc' = [tpc EXCEPT ![t] = "done"]
            /\ UNCHANGED <<tsent, logged>>
       ELSE IF ~IsSome(try_clone(trequest[t]))
       THEN /\ tresult' = [tresult EXCEPT ![t] =
                  Some(Err(RenamedError("Network",
                               Msg("Failed to clone request for retry"),
                               None, None, None, None)))]
            /\ tpc' = [tpc EXCEPT ![t] = "done"]
            /\ UNCHANGED <<tsent, logged>>
       ELSE /\ transport_accepts(t)
            /\ tsent' = [tsent EXCEPT ![t] = Append(@, Unwrap(try_clone(trequest[t])))]
            /\ tpc' = [tpc EXCEPT ![t] = "send"]
            /\ logged' = IF task_attempt(t) > 0
                         THEN emit({retry_line(task_attempt(t))}) ELSE logged
            /\ UNCHANGED tresult
    /\ UNCHANGED <<api_key, op, trequest, tmax_attempts, tattempt, tlast_error, tseen>>
    /\ UNCHANGED <<clientVars, execVars, classifyVars, waitVars, callVars, jobVars,
                   quietVars>>

\* Variant of response_outcome that does not look at the status code.
response_outcome_ignoring_status(reply) ==
    IF IsSome(reply.text_err)
    THEN Err(from_reqwest(Unwrap(reply.text_err)))
    ELSE Ok(reply.as_error)

\* Variant of response_outcome that tests the status before it reads the body.
response_outcome_status_first(reply) ==
    IF reply.status_code >= 400
    THEN Err(from_http_status(reply.status_code, None))
    ELSE IF IsSome(reply.text_err)
    THEN Err(from_reqwest(Unwrap(reply.text_err)))
    ELSE Ok(reply.as_error)

\* The Ok(response) arm: what execute_request returns for a response
\* (client.rs:292-312)
response_outcome(reply) ==
    IF IsSome(reply.text_err)
    THEN Err(from_reqwest(Unwrap(reply.text_err)))
    ELSE IF reply.status_code >= 400
    THEN Err(from_http_status(reply.status_code, Some(reply.as_error)))
    ELSE Ok(reply.as_error)

\* execute_request, req.send().await returns  (client.rs:291-321)
task_execute_request_reply(t, reply) ==
    /\ op[t] = "execute_request" /\ tpc[t] = "send"
    /\ tseen' = [tseen EXCEPT ![t] = Append(@, reply)]
    /\ IF IsSome(reply.send_err)
       THEN /\ tlast_error' = [tlast_error EXCEPT ![t] =
                                  Some(from_reqwest(Unwrap(reply.send_err)))]
            /\ IF task_attempt(t) < max_retries
               THEN /\ tpc' = [tpc EXCEPT ![t] = "sleep"]
                    /\ UNCHANGED tattempt
               ELSE /\ tattempt' = [tattempt EXCEPT ![t] = @ + 1]
                    /\ tpc' = [tpc EXCEPT ![t] = "loop"]
            /\ UNCHANGED tresult
       ELSE /\ tresult' = [tresult EXCEPT ![t] = Some(response_outcome(reply))]
            /\ tpc' = [tpc EXCEPT ![t] = "done"]
            /\ UNCHANGED <<tattempt, tlast_error>>
    /\ logged' = IF ~IsSome(reply.send_err) /\ ~IsSome(reply.text_err)
                 THEN emit({response_line("POST", "/api/v1/rename", reply.status_code)})
                 ELSE logged
    /\ UNCHANGED <<api_key, op, trequest, tmax_attempts, tsent>>
    /\ UNCHANGED <<clientVars, execVars, classifyVars, waitVars, callVars, jobVars,
                   quietVars>>

\* tokio::time::sleep(..).await returns, in execute_request or in wait
\* (client.rs:318-322, async_job.rs:222-223)
task_sleep_done(t) ==
    /\ tpc[t] = "sleep"
    /\ tattempt' = [tattempt EXCEPT ![t] = @ + 1]
    /\ tpc' = [tpc EXCEPT ![t] = "loop"]
    /\ UNCHANGED <<api_key, op, trequest, tmax_attempts, tlast_error, tresult,
                   tsent, tseen, logged>>
    /\ UNCHANGED <<clientVars, execVars, classifyVars, waitVars, callVars, jobVars,
                   quietVars>>

\* wait, the loop head with the request of status()
\* (async_job.rs:195-196, 124-129, 225-228)
task_wait_loop(t) ==
    /\ op[t] = "wait" /\ tpc[t] = "loop"
    /\ IF task_attempt(t) < tmax_attempts[t]
       THEN /\ transport_accepts(t)
            /\ tsent' = [tsent EXCEPT ![t] = Append(@, status_request(api_key))]
            /\ tpc' = [tpc EXCEPT ![t] = "send"]
            /\ UNCHANGED tresult
       ELSE /\ tresult' = [tresult EXCEPT ![t] = Some(Err(timeout_error))]
            /\ tpc' = [tpc EXCEPT ![t] = "done"]
            /\ UNCHANGED tsent
    /\ UNCHANGED <<api_key, op, trequest, tmax_attempts, tattempt, tlast_error, tseen,
                   logged>>
    /\ UNCHANGED <<clientVars, execVars, classifyVars, waitVars, callVars, jobVars,
                   quietVars>>

\* wait, self.status().await returns  (async_job.rs:196-222)
task_wait_status(t, reply) ==
    /\ op[t] = "wait" /\ tpc[t] = "send"
    /\ tseen' = [tseen EXCEPT ![t] = Append(@, reply)]
    /\ LET r == status(reply) IN
       IF ~r.ok
       THEN /\ tresult' = [tresult EXCEPT ![t] = Some(status_failure(r))]
            /\ tpc' = [tpc EXCEPT ![t] = "done"]
       ELSE IF Unwrap(r.value).status = "Completed"
       THEN /\ tresult' = [tresult EXCEPT ![t] = Some(completed_outcome(Unwrap(r.value)))]
            /\ tpc' = [tpc EXCEPT ![t] = "done"]
       ELSE IF Unwrap(r.value).status = "Failed"
       THEN /\ tresult' = [tresult EXCEPT ![t] =
                             Some(Err(failed_job_error(Unwrap(r.value))))]
            /\ tpc' = [tpc EXCEPT ![t] = "done"]
       ELSE /\ tpc' = [tpc EXCEPT ![t] = "sleep"]
            /\ UNCHANGED tresult
    /\ logged' = IF status(reply).ok
                 THEN emit({job_line(Unwrap(status(reply).value))}) ELSE logged
    /\ UNCHANGED <<api_key, op, trequest, tmax_attempts, tattempt, tlast_error, tsent>>
    /\ UNCHANGED <<clientVars, execVars, classifyVars, waitVars, callVars, jobVars,
                   quietVars>>

\* download_file, the request  (client.rs:745-753)
task_download_file_send(t) ==
    /\ op[t] = "download_file" /\ tpc[t] = "loop"
    /\ transport_accepts(t)
    /\ tsent' = [tsent EXCEPT ![t] = Append(@, download_request(api_key))]
    /\ tpc' = [tpc EXCEPT ![t] = "send"]
    /\ UNCHANGED <<api_key, op, trequest, tmax_attempts, tattempt, tlast_error,
                   tresult, tseen, logged>>
    /\ UNCHANGED <<clientVars, execVars, classifyVars, waitVars, callVars, jobVars,
                   quietVars>>

\* Variant of download_retried that sends again after a transport failure
\* while the client has a retry left.
download_retried_on_failure(t, reply) ==
    IsSome(reply.send_err) /\ task_attempt(t) < max_retries

\* Whether download_file sends its request again: never, there is no loop
\* around send() and every branch returns  (client.rs:748-777)
download_retried(t, reply) == FALSE

\* What download_file returns for what the transport answered
\* (client.rs:754, 768-777)
download_outcome(reply) ==
    IF IsSome(reply.send_err)
    THEN Err(from_reqwest(Unwrap(reply.send_err)))
    ELSE IF IsSome(reply.text_err)
    THEN Err(from_reqwest(Unwrap(reply.text_err)))
    ELSE IF reply.status_code >= 400
    THEN Err(from_http_status(reply.status_code, Some(reply.as_error)))
    ELSE Ok(reply.as_error)

\* download_file, send().await returns; text_err is the failure of
\* response.text() or of response.bytes(), if any  (client.rs:753-777)
task_download_file_reply(t, reply) ==
    /\ op[t] = "download_file" /\ tpc[t] = "send"
    /\ tseen' = [tseen EXCEPT ![t] = Append(@, reply)]
    /\ IF download_retried(t, reply)
       THEN /\ tattempt' = [tattempt EXCEPT ![t] = @ + 1]
            /\ tpc' = [tpc EXCEPT ![t] = "loop"]
            /\ UNCHANGED tresult
       ELSE /\ tresult' = [tresult EXCEPT ![t] = Some(download_outcome(reply))]
            /\ tpc' = [tpc EXCEPT ![t] = "done"]
            /\ UNCHANGED tattempt
    /\ logged' = IF ~IsSome(reply.send_err)
                 THEN emit({response_line("GET", "/files/doc.pdf", reply.status_code)})
                 ELSE logged
    /\ UNCHANGED <<api_key, op, trequest, tmax_attempts, tlast_error, tsent>>
    /\ UNCHANGED <<clientVars, execVars, classifyVars, waitVars, callVars, jobVars,
                   quietVars>>

\* one step of the call of task t
task_step(t) ==
    \/ task_execute_request_loop(t)
    \/ \E reply \in TaskReplies("execute_request") : task_execute_request_reply(t, reply)
    \/ task_sleep_done(t)
    \/ task_wait_loop(t)
    \/ \E reply \in TaskReplies("wait") : task_wait_status(t, reply)
    \/ task_download_file_send(t)
    \/ \E reply \in TaskReplies("download_file") : task_download_file_reply(t, reply)

NextTasks == \E t \in Tasks : task_step(t)

SpecTasks == InitTasks /\ [][NextTasks]_vars

(***************************************************************************)
(* Claims about concurrent calls, checked under SpecTasks.                 *)
(***************************************************************************)
\* AsyncJob::wait run by itself on the answers seq, k of them consumed: what
\* it returns and how many status calls it makes  (async_job.rs:194-229)
RECURSIVE wait_alone(_, _, _)
wait_alone(n, seq, k) ==
    IF k >= n
    THEN [ended |-> TRUE, outcome |-> Some(Err(timeout_error)), calls |-> k]
    ELSE IF k >= Len(seq)
    THEN [ended |-> FALSE, outcome |-> None, calls |-> k]
    ELSE LET r == status(seq[k + 1]) IN
         IF ~r.ok
         THEN [ended |-> TRUE, outcome |-> Some(r), calls |-> k + 1]
         ELSE IF Unwrap(r.value).status = "Completed"
         THEN [ended |-> TRUE, outcome |-> Some(completed_outcome(Unwrap(r.value))),
               calls |-> k + 1]
         ELSE IF Unwrap(r.value).status = "Failed"
         THEN [ended |-> TRUE, outcome |-> Some(Err(failed_job_error(Unwrap(r.value)))),
               calls |-> k + 1]
         ELSE wait_alone(n, seq, k + 1)

\* execute_request run by itself on the answers seq, k of them consumed, with
\* last as its last_error: what it returns and how many requests it sends
\* (client.rs:267-328)
RECURSIVE execute_alone(_, _, _, _, _)
execute_alone(m, req, seq, k, last) ==
    IF k > m
    THEN [ended |-> TRUE,
          outcome |-> Some(Err(IF IsSome(last) THEN Unwrap(last)
                               ELSE RenamedError("Network",
                                        Msg("Request failed after retries"),
                                        None, None, None, None))),
          sends |-> k]
    ELSE IF ~req.cloneable
    THEN [ended |-> TRUE,
          outcome |-> Some(Err(RenamedError("Network",
                                   Msg("Failed to clone request for retry"),
                                   None, None, None, None))),
          sends |-> k]
    ELSE IF k >= Len(seq)
    THEN [ended |-> FALSE, outcome |-> None, sends |-> k]
    ELSE LET reply == seq[k + 1] IN
         IF IsSome(reply.send_err)
         THEN execute_alone(m, req, seq, k + 1,
                            Some(from_reqwest(Unwrap(reply.send_err))))
         ELSE [ended |-> TRUE,
               outcome |-> Some(IF IsSome(reply.text_err)
                                THEN Err(from_reqwest(Unwrap(reply.text_err)))
                                ELSE IF reply.status_code >= 400
                                THEN Err(from_http_status(reply.status_code,
                                                          Some(reply.as_error)))
                                ELSE Ok(reply.as_error)),
               sends |-> k + 1]

\* C15: a status check goes through the retrying executor: when wait ends
\* with the transport failure of a status check, that check has been sent
\* max_retries + 1 times, each time failing in transport.
C15_StatusCheckRetried ==
    \A t \in Tasks :
        (/\ op[t] = "wait" /\ tpc[t] = "done"
         /\ tseen[t] # <<>>
         /\ IsSome(Last(tseen[t]).send_err)) =>
            /\ Len(tseen[t]) >= max_retries + 1
            /\ \A i \in (Len(tseen[t]) - max_retries)..Len(tseen[t]) :
                  IsSome(tseen[t][i].send_err)

\* C17: every request handed to the transport, by the first attempt and by
\* every retry of execute_request, by every status() of wait and by
\* download_file, carries the header Authorization: Bearer <api_key of the
\* client>.
C17_BearerOnEveryRequest ==
    \A t \in Tasks : \A i \in 1..Len(tsent[t]) :
        tsent[t][i].authorization = Some(bearer(api_key))

C17_Witness ==
    /\ api_key = <<"s", "k">>
    /\ op["t1"] = "execute_request" /\ Len(tsent["t1"]) = 3
    /\ tsent["t1"][3].authorization = Some(<<"Bearer", <<"s", "k">>>>)
    /\ op["t2"] = "wait" /\ Len(tsent["t2"]) = 2
    /\ tsent["t2"][2].authorization = Some(<<"Bearer", <<"s", "k">>>>)

\* C19: concurrent wait calls do not block one another and do not influence
\* one another: a wait that has not returned can take its next step whatever
\* the other calls are doing, it never makes more than its own max_attempts
\* status calls, and when it returns, its outcome and its number of status
\* calls are those of wait run by itself on the answers it received.
C19_PollersIndependent ==
    /\ [](\A t \in Tasks :
            (op[t] = "wait" /\ tpc[t] # "done") => ENABLED task_step(t))
    /\ [](\A t \in Tasks :
            op[t] = "wait" =>
                /\ Len(tsent[t]) <= tmax_attempts[t]
                /\ tpc[t] = "done" =>
                    LET alone == wait_alone(tmax_attempts[t], tseen[t], 0) IN
                    /\ alone.ended
                    /\ tresult[t] = alone.outcome
                    /\ Len(tsent[t]) = alone.calls
                    /\ Len(tseen[t]) = alone.calls)

C19_Witness ==
    /\ op["t1"] = "wait" /\ op["t2"] = "wait"
    /\ tmax_attempts["t1"] = 1 /\ tmax_attempts["t2"] = 2
    /\ tpc["t1"] = "send" /\ Len(tsent["t1"]) = 1
    /\ tpc["t2"] = "done" /\ Len(tsent["t2"]) = 2
    /\ tresult["t2"] = Some(Ok("R"))

\* C20: the retry state of execute_request is the call's own: whatever the
\* other calls on the client see, a call never sends more than
\* max_retries + 1 requests, and when it returns, its outcome and its number
\* of sends are those of execute_request run by itself on the answers it
\* received: a call that met only transport failures has sent
\* max_retries + 1 times and returns its own last failure.
C20_RetryStateLocal ==
    \A t \in Tasks :
        op[t] = "execute_request" =>
            /\ Len(tsent[t]) <= max_retries + 1
            /\ tpc[t] = "done" =>
                LET alone == execute_alone(max_retries, trequest[t], tseen[t], 0, None) IN
                /\ alone.ended
                /\ tresult[t] = alone.outcome
                /\ Len(tsent[t]) = alone.sends
                /\ Len(tseen[t]) = alone.sends
                /\ (/\ trequest[t].cloneable
                    /\ \A i \in 1..Len(tseen[t]) : IsSome(tseen[t][i].send_err)) =>
                        /\ Len(tsent[t]) = max_retries + 1
                        /\ tresult[t] =
                             Some(Err(from_reqwest(Unwrap(Last(tseen[t]).send_err))))

C20_Witness ==
    /\ max_retries = 2
    /\ op["t1"] = "execute_request" /\ op["t2"] = "execute_request"
    /\ tpc["t1"] = "done" /\ Len(tsent["t1"]) = 3
    /\ \A i \in 1..3 : tseen["t1"][i].send_err = Some(ConnectError)
    /\ Unwrap(Unwrap(tresult["t1"]).err).kind = "Network"
    /\ tpc["t2"] = "done" /\ Len(tsent["t2"]) = 3
    /\ \A i \in 1..3 : tseen["t2"][i].send_err = Some(TimeoutError)
    /\ Unwrap(Unwrap(tresult["t2"]).err).kind = "Timeout"

\* the message texts of the errors the calls return: literals of the SDK,
\* the text of a reqwest error ("{err}"), and the server's error member
ErrorTexts ==
    {"Request timed out", "Connection failed", "{err}", "HTTP {}",
     "Failed to clone request for retry", "Request failed after retries",
     "Job polling timeout exceeded", "Job completed but no result returned",
     "Job failed", "boom", "Slow down"}

GotResponse(t) == tseen[t] # <<>> /\ ~IsSome(Last(tseen[t]).send_err)

\* C26 as stated: execute_request returns Ok exactly when an attempt received
\* a response with status < 400, and a response with status >= 400 is
\* returned as the error classified from that status.
C26_OkIffStatusBelow400 ==
    \A t \in Tasks :
        (op[t] = "execute_request" /\ tpc[t] = "done") =>
            /\ Unwrap(tresult[t]).ok <=>
                  (GotResponse(t) /\ Last(tseen[t]).status_code < 400)
            /\ (GotResponse(t) /\ Last(tseen[t]).status_code >= 400) =>
                  /\ ~Unwrap(tresult[t]).ok
                  /\ Unwrap(Unwrap(tresult[t]).err).status_code =
                        Some(Last(tseen[t]).status_code)

\* C26, amended: execute_request returns Ok(body) exactly when an attempt
\* received a response with status < 400 and the body of that response was
\* read; the first response received ends the call, whatever its status: it
\* is never followed by another attempt.  A response with status >= 400
\* whose body was read is returned as the error classified from its status;
\* a response whose body could not be read is returned as the Network or
\* Timeout error of that read, whatever its status.
C26_OkIffBodyReadAndStatusBelow400 ==
    \A t \in Tasks :
        op[t] = "execute_request" =>
            /\ \A i \in 1..(Len(tseen[t]) - 1) : IsSome(tseen[t][i].send_err)
            /\ GotResponse(t) => tpc[t] = "done" /\ Len(tsent[t]) = Len(tseen[t])
            /\ tpc[t] = "done" =>
                /\ Unwrap(tresult[t]).ok <=>
                      /\ GotResponse(t)
                      /\ Last(tseen[t]).status_code < 400
                      /\ ~IsSome(Last(tseen[t]).text_err)
                /\ Unwrap(tresult[t]).ok =>
                      tresult[t] = Some(Ok(Last(tseen[t]).as_error))
                /\ (GotResponse(t) /\ IsSome(Last(tseen[t]).text_err)) =>
                      /\ Unwrap(Unwrap(tresult[t]).err).kind \in {"Network", "Timeout"}
                      /\ Unwrap(Unwrap(tresult[t]).err).status_code = None
                /\ (/\ GotResponse(t)
                    /\ ~IsSome(Last(tseen[t]).text_err)
                    /\ Last(tseen[t]).status_code >= 400) =>
                      /\ ~Unwrap(tresult[t]).ok
                      /\ Unwrap(Unwrap(tresult[t]).err).status_code =
                            Some(Last(tseen[t]).status_code)
                      /\ Unwrap(Unwrap(tresult[t]).err).kind = "Api"

C26_Witness ==
    /\ op["t1"] = "execute_request" /\ tpc["t1"] = "done"
    /\ Len(tseen["t1"]) = 2
    /\ IsSome(tseen["t1"][1].send_err)
    /\ tseen["t1"][2] = Reply(None, 200, Some(TimeoutError), Garbage, None)
    /\ Unwrap(Unwrap(tresult["t1"]).err).kind = "Timeout"
    /\ op["t2"] = "execute_request" /\ tpc["t2"] = "done"
    /\ tseen["t2"] = <<Reply(None, 302, None, Garbage, None)>>
    /\ Unwrap(tresult["t2"]).ok

(***************************************************************************)
(* Claims about the statuses, the payload and the sleeps of wait, checked  *)
(* under SpecWait.                                                         *)
(***************************************************************************)
\* this step is wait taking a snapshot from status() and a callback, if any,
\* that returns
SnapshotTaken ==
    /\ wpc = "status"
    /\ Len(received') = Len(received) + 1
    /\ on_progress # "panic"

\* C25: JobStatus is partitioned into in-progress {Pending, Processing} and
\* terminal {Completed, Failed}: is_in_progress(s) holds exactly when
\* is_finished(s) does not; after a snapshot wait goes on (sleeps, towards the
\* next poll) exactly when its status is in progress and returns exactly when
\* it is terminal, and a status call is only ever made when no snapshot or an
\* in-progress snapshot came before.
C25_StatusPartition ==
    /\ [](/\ \A st \in JobStatuses : is_in_progress(st) <=> ~is_finished(st)
          /\ \A st \in JobStatuses :
                is_in_progress(st) <=> st \in {"Pending", "Processing"})
    /\ [][SnapshotTaken =>
            /\ (wpc' = "sleep" /\ wresult' = None)
                  <=> is_in_progress(Last(received').status)
            /\ (wpc' = "done" /\ wresult' # None)
                  <=> is_finished(Last(received').status)]_vars
    /\ [][calls' # calls =>
            \A i \in 1..Len(received) : is_in_progress(received[i].status)]_vars

C25_Witness ==
    /\ wpc = "done" /\ on_progress = "none" /\ calls = 3 /\ Len(received) = 3
    /\ received[1].status = "Processing"
    /\ received[2].status = "Pending"
    /\ received[3].status = "Failed"
    /\ wsleeps = 2

\* C27: wait returns a success payload only when the last snapshot it observed
\* is Completed and carries a result, and the payload is that result; while
\* the last snapshot is Pending or Processing its result, if it carries one,
\* is not returned (wait sleeps and polls again, or ends with the timeout or
\* the error of a later status call), and a Failed snapshot carrying a result
\* yields the error of the failed job.
C27_PayloadOnlyFromCompleted ==
    /\ (IsSome(wresult) /\ Unwrap(wresult).ok) =>
            /\ received # <<>>
            /\ Last(received).status = "Completed"
            /\ IsSome(Last(received).result)
            /\ wresult = Some(Ok(Unwrap(Last(received).result)))
            /\ OnlyLastMayBeTerminal
    /\ (/\ received # <<>>
        /\ IsSome(Last(received).result)
        /\ on_progress # "panic"
        /\ wpc # "cancelled") =>
            /\ is_in_progress(Last(received).status) =>
                  /\ wresult = None \/ ~Unwrap(wresult).ok
                  /\ wresult = None => wpc \in {"sleep", "loop", "status"}
            /\ Last(received).status = "Failed" =>
                  wresult = Some(Err(failed_job_error(Last(received))))

C27_Witness ==
    /\ wpc = "done" /\ Len(received) = 2
    /\ received[1] = [job_id |-> "j1", status |-> "Pending",
                      error |-> None, result |-> Some("R")]
    /\ received[2] = [job_id |-> "j1", status |-> "Failed",
                      error |-> None, result |-> Some("R")]
    /\ wresult = Some(Err(job_error(Msg("Job failed"), Some("j1"))))

\* the in-progress snapshots among the first n received
RECURSIVE InProgressAmong(_)
InProgressAmong(n) ==
    IF n = 0 THEN 0
    ELSE InProgressAmong(n - 1)
         + (IF is_in_progress(received[n].status) THEN 1 ELSE 0)

\* C28: in wait, a poll_interval sleep is started exactly once after every
\* in-progress snapshot, never before the first status call nor after a
\* terminal snapshot; the snapshot of the last allowed attempt is followed by
\* a sleep too, so a timed-out wait with max_attempts = N has slept N times,
\* all of them finished, when it reports the timeout.
C28_SleepAfterEverySnapshotInProgress ==
    /\ [](/\ on_progress # "panic" => wsleeps = InProgressAmong(Len(received))
          /\ calls = 0 => wsleeps = 0
          /\ wpc \in {"loop", "status", "done"} => wattempt = wsleeps
          /\ wpc = "sleep" => /\ wattempt + 1 = wsleeps
                              /\ is_in_progress(Last(received).status)
          /\ wresult = Some(Err(timeout_error)) =>
                /\ wsleeps = max_attempts
                /\ wattempt = max_attempts
                /\ calls = max_attempts)
    /\ [][wsleeps' # wsleeps =>
            /\ wsleeps' = wsleeps + 1
            /\ SnapshotTaken
            /\ is_in_progress(Last(received').status)
            /\ wpc' = "sleep"]_vars
    /\ [][(received # <<>> /\ is_finished(Last(received).status))
            => wsleeps' = wsleeps /\ wpc' # "sleep"]_vars

C28_Witness ==
    /\ wpc = "done" /\ max_attempts = 2 /\ calls = 2 /\ wsleeps = 2
    /\ wattempt = 2 /\ Len(received) = 2 /\ on_progress = "record"
    /\ wresult = Some(Err(timeout_error))

(***************************************************************************)
(* One AsyncJob over its life: AsyncJob::new, the with_* methods applied   *)
(* before the first use, then status() and wait() calls one after the      *)
(* other on the same job  (async_job.rs:73-229).                           *)
(***************************************************************************)
MaxWaits == 2

\* the arguments the model hands to the with_* methods
PollIntervals == {1, 5}
MaxAttempts == {0, 1, 2}

\* what the transport answers to the status requests of this job
JobReplies ==
    {Reply(None, 200, None, Garbage,
           Some([job_id |-> "j1", status |-> "Pending",
                 error |-> None, result |-> None])),
     Reply(None, 200, None, Garbage,
           Some([job_id |-> "j1", status |-> "Completed",
                 error |-> None, result |-> Some("R")])),
     Reply(Some(ConnectError), 0, None, Garbage, None)}

\* AsyncJob::new  (async_job.rs:73-87)
InitJob ==
    /\ status_url \in StatusUrls
    /\ poll_interval = DEFAULT_POLL_INTERVAL
    /\ max_attempts = MAX_POLL_ATTEMPTS
    /\ last_built = None
    /\ waits = 0 /\ slept = 0 /\ prev_result = None
    /\ on_progress = "none"
    /\ wpc = "new" /\ wattempt = 0 /\ wresult = None /\ calls = 0
    /\ received = <<>> /\ callbacks = <<>> /\ wsleeps = 0 /\ last_reply = None
    /\ ClientIdle
    /\ ExecIdle
    /\ ClassifyIdle
    /\ TasksIdle
    /\ CallIdle

\* Variant of with_poll_interval that builds the job anew around the interval.
with_poll_interval_on_new_job(interval) ==
    /\ wpc = "new"
    /\ poll_interval' = interval
    /\ max_attempts' = MAX_POLL_ATTEMPTS
    /\ last_built' = Some(Built("with_poll_interval", interval))
    /\ UNCHANGED <<status_url, waits, slept, prev_result>>
    /\ UNCHANGED <<on_progress, wpc, wattempt, wresult, calls, received,
                   callbacks, wsleeps, last_reply>>
    /\ UNCHANGED <<clientVars, execVars, classifyVars, taskVars, callVars,
                   quietVars>>

\* AsyncJob::with_poll_interval(mut self, interval)  (async_job.rs:98-101)
with_poll_interval(interval) ==
    /\ wpc = "new"
    /\ poll_interval' = interval
    /\ last_built' = Some(Built("with_poll_interval", interval))
    /\ UNCHANGED <<status_url, waits, slept, prev_result>>
    /\ UNCHANGED <<max_attempts, on_progress, wpc, wattempt, wresult, calls,
                   received, callbacks, wsleeps, last_reply>>
    /\ UNCHANGED <<clientVars, execVars, classifyVars, taskVars, callVars,
                   quietVars>>

\* Variant of with_max_attempts that raises 0 to one attempt.
with_max_attempts_at_least_one(attempts) ==
    /\ wpc = "new"
    /\ max_attempts' = IF attempts = 0 THEN 1 ELSE attempts
    /\ last_built' = Some(Built("with_max_attempts", attempts))
    /\ UNCHANGED <<status_url, poll_interval, waits, slept, prev_result>>
    /\ UNCHANGED <<on_progress, wpc, wattempt, wresult, calls, received,
                   callbacks, wsleeps, last_reply>>
    /\ UNCHANGED <<clientVars, execVars, classifyVars, taskVars, callVars,
                   quietVars>>

\* AsyncJob::with_max_attempts(mut self, attempts: u32)  (async_job.rs:106-109)
with_max_attempts(attempts) ==
    /\ wpc = "new"
    /\ max_attempts' = attempts
    /\ last_built' = Some(Built("with_max_attempts", attempts))
    /\ UNCHANGED <<status_url, poll_interval, waits, slept, prev_result>>
    /\ UNCHANGED <<on_progress, wpc, wattempt, wresult, calls, received,
                   callbacks, wsleeps, last_reply>>
    /\ UNCHANGED <<clientVars, execVars, classifyVars, taskVars, callVars,
                   quietVars>>

\* Variant of first_attempt for a loop counter kept in the job.
first_attempt_resumed == wattempt

\* `for _attempt in 0..self.max_attempts`: the range is built anew by every
\* call of wait  (async_job.rs:195)
first_attempt == 0

\* job.wait(on_progress) is called, on a new job or after an earlier wait
\* returned  (async_job.rs:194-195)
wait_call(callback) ==
    /\ wpc \in {"new", "done"}
    /\ waits < MaxWaits
    /\ waits' = waits + 1
    /\ prev_result' = wresult
    /\ on_progress' = callback
    /\ wattempt' = first_attempt
    /\ wpc' = "loop"
    /\ wresult' = None /\ calls' = 0 /\ received' = <<>> /\ callbacks' = <<>>
    /\ wsleeps' = 0 /\ slept' = 0 /\ last_reply' = None
    /\ UNCHANGED <<max_attempts, status_url, poll_interval, last_built>>
    /\ UNCHANGED <<clientVars, execVars, classifyVars, taskVars, callVars,
                   quietVars>>

\* job.status() is called by itself, outside wait, and returns
\* (async_job.rs:121-158)
status_call(reply) ==
    /\ wpc \in {"new", "done"}
    /\ last_reply' = Some(reply)
    /\ UNCHANGED <<max_attempts, on_progress, wpc, wattempt, wresult, calls,
                   received, callbacks, wsleeps>>
    /\ UNCHANGED <<clientVars, execVars, classifyVars, taskVars, callVars,
                   jobVars, quietVars>>

NextJob ==
    \/ \E interval \in PollIntervals : with_poll_interval(interval)
    \/ \E attempts \in MaxAttempts : with_max_attempts(attempts)
    \/ \E callback \in {"none", "record"} : wait_call(callback)
    \/ \E reply \in JobReplies : status_call(reply)
    \/ wait_loop
    \/ \E reply \in JobReplies : wait_status(reply)
    \/ wait_sleep_done

SpecJob == InitJob /\ [][NextJob]_vars

(***************************************************************************)
(* Claims about the polling parameters of a job, checked under SpecJob.    *)
(***************************************************************************)
\* this step is a call of the with_* method `fn`
BuiltBy(fn) ==
    /\ wpc = "new"
    /\ last_built' # last_built
    /\ Unwrap(last_built').fn = fn

\* C24: a newly created AsyncJob polls every 2 seconds for at most 150
\* attempts; with_poll_interval and with_max_attempts applied before the first
\* use replace exactly the one parameter they name, by their argument, and
\* leave the other parameter and the status URL unchanged.
C24_DefaultsAndBuilders ==
    /\ [](last_built = None => poll_interval = 2 /\ max_attempts = 150)
    /\ [](calls <= max_attempts /\ slept = wsleeps * poll_interval)
    /\ []((last_built = None /\ wresult = Some(Err(timeout_error))) =>
            calls = 150 /\ slept = 300)
    /\ [][BuiltBy("with_poll_interval") =>
            /\ poll_interval' = Unwrap(last_built').arg
            /\ max_attempts' = max_attempts
            /\ status_url' = status_url]_vars
    /\ [][BuiltBy("with_max_attempts") =>
            /\ max_attempts' = Unwrap(last_built').arg
            /\ poll_interval' = poll_interval
            /\ status_url' = status_url]_vars

C24_Witness ==
    /\ last_built = Some(Built("with_poll_interval", 5))
    /\ max_attempts = 2 /\ poll_interval = 5
    /\ status_url = "https://www.renamed.to/api/v1/status/j2"
    /\ wpc = "done" /\ calls = 2 /\ slept = 10
    /\ wresult = Some(Err(timeout_error))

\* C29: with_max_attempts accepts 0: the job then has max_attempts = 0, and
\* every wait on it returns the Job error "Job polling timeout exceeded"
\* without any status call, any callback invocation or any sleep.
C29_ZeroAttempts ==
    /\ [](last_built = Some(Built("with_max_attempts", 0)) => max_attempts = 0)
    /\ []((max_attempts = 0 /\ waits > 0) =>
            /\ wpc \in {"loop", "done"}
            /\ calls = 0 /\ received = <<>> /\ callbacks = <<>>
            /\ wsleeps = 0 /\ slept = 0
            /\ wpc = "done" =>
                  /\ wresult = Some(Err(timeout_error))
                  /\ Unwrap(Unwrap(wresult).err).kind = "Job"
                  /\ Unwrap(Unwrap(wresult).err).message =
                        Msg("Job polling timeout exceeded"))

C29_Witness ==
    /\ last_built = Some(Built("with_max_attempts", 0))
    /\ max_attempts = 0 /\ on_progress = "record"
    /\ waits = 1 /\ wpc = "done" /\ calls = 0 /\ callbacks = <<>> /\ wsleeps = 0
    /\ Unwrap(Unwrap(wresult).err).kind = "Job"

\* C30: status() and wait() leave the job's status URL, poll interval and
\* max attempts unchanged, and every wait call starts a fresh loop: a wait
\* that follows a wait ended by the timeout or by an error has the full
\* budget of max_attempts status calls.
C30_BudgetPerWaitCall ==
    /\ [][wpc # "new" =>
            /\ status_url' = status_url
            /\ poll_interval' = poll_interval
            /\ max_attempts' = max_attempts]_vars
    /\ [][last_reply' # last_reply =>
            /\ status_url' = status_url
            /\ poll_interval' = poll_interval
            /\ max_attempts' = max_attempts]_vars
    /\ [][waits' # waits =>
            /\ wattempt' = 0 /\ calls' = 0 /\ wsleeps' = 0
            /\ wpc' = "loop" /\ wresult' = None]_vars
    /\ [](wresult = Some(Err(timeout_error)) =>
            calls = max_attempts /\ wsleeps = max_attempts)
    /\ []((wpc = "loop" /\ wattempt < max_attempts) => ENABLED wait_loop)
    /\ [](calls + (max_attempts - wattempt) >= max_attempts)

C30_Witness ==
    /\ waits = 2 /\ max_attempts = 150
    /\ prev_result = Some(Err(timeout_error))
    /\ wpc = "done" /\ calls = 150 /\ wsleeps = 150
    /\ wresult = Some(Err(timeout_error))

C30_WitnessAfterError ==
    /\ waits = 2 /\ max_attempts = 2
    /\ IsSome(prev_result) /\ ~Unwrap(prev_result).ok
    /\ Unwrap(Unwrap(prev_result).err).kind = "Network"
    /\ wpc = "done" /\ calls = 2 /\ wresult = Some(Ok("R"))

(***************************************************************************)
(* Claims about the ends of execute_request, checked under Spec.           *)
(***************************************************************************)
\* C31: when the prepared request cannot be cloned, execute_request returns
\* the Network error "Failed to clone request for retry" at the attempt where
\* try_clone fails, the first one, without sending the request: zero requests
\* are sent and no backoff sleep is taken, whatever max_retries is.
C31_CloneFailure ==
    ~cloneable =>
        /\ sends = 0 /\ responses = 0 /\ sleeps = <<>> /\ attempt = 0
        /\ pc \in {"loop", "done"}
        /\ pc = "done" =>
              /\ result = Some(Err(clone_error))
              /\ Unwrap(Unwrap(result).err).kind = "Network"
              /\ Unwrap(Unwrap(result).err).message =
                    Msg("Failed to clone request for retry")

C31_Witness ==
    /\ ~cloneable /\ max_retries >= 2 /\ pc = "done" /\ sends = 0
    /\ Unwrap(Unwrap(result).err).message =
          Msg("Failed to clone request for retry")

\* the fallback of unwrap_or_else at the exit of the loop  (client.rs:324-327)
fallback_error ==
    RenamedError("Network", Msg("Request failed after retries"),
                 None, None, None, None)

\* C37: whenever the retry loop of execute_request is left without a return,
\* last_error is set, so the fallback Network error "Request failed after
\* retries" is never returned: the loop body runs at least once and every
\* iteration that does not return records a failure.
C37_FallbackUnreachable ==
    /\ (pc = "loop" /\ loop_ended) =>
            /\ IsSome(last_error)
            /\ sends >= 1
            /\ last_error = Some(from_reqwest(Unwrap(last_failure)))
    /\ (pc = "loop" /\ attempt > 0) => IsSome(last_error)
    /\ IsSome(result) => result # Some(Err(fallback_error))
    /\ (pc = "done" /\ attempt > max_retries) =>
            result = Some(Err(Unwrap(last_error)))

C37_Witness ==
    /\ pc = "done" /\ max_retries = 0 /\ attempt = 1 /\ sends = 1
    /\ IsSome(last_error) /\ result = Some(Err(Unwrap(last_error)))

\* C34: for every max_retries and every retry k in 1..max_retries, the delay
\* written by the retry log line (32-bit signed) equals the delay slept before
\* retry k (64-bit), both equal 100 * 2^(k-1) ms, and neither computation
\* overflows: no call panics in the arithmetic.
C34_LoggedDelayIsSleptDelay ==
    /\ pc # "panicked"
    /\ \A k \in 1..Len(sleeps) : sleeps[k] = IdealDelay(k)
    /\ \A k \in 1..Len(log_delays) :
          /\ k <= Len(sleeps)
          /\ log_delays[k] = sleeps[k]
          /\ log_delays[k] = IdealDelay(k)

\* the first retry whose logged delay is not the delay slept, in a build that
\* wraps: 100 * 2^25 ms slept, -7 * 2^27 ms logged
C34_WrappedLogDelay ==
    /\ debug /\ ~overflow_checks /\ Len(log_delays) = 26
    /\ sleeps[26] = Scaled(25, 27)
    /\ log_delays[26] = Scaled(-7, 27)
    /\ \A k \in 1..25 : log_delays[k] = sleeps[k] /\ sleeps[k] = IdealDelay(k)

(***************************************************************************)
(* Claims about failed body reads and about download_file, checked under   *)
(* SpecTasks.                                                              *)
(***************************************************************************)
\* the latest answer to task t is a response whose body could not be read
BodyReadFailed(t) ==
    /\ tseen[t] # <<>>
    /\ ~IsSome(Last(tseen[t]).send_err)
    /\ IsSome(Last(tseen[t]).text_err)

\* C32: a transport failure while reading the body of a response already
\* received ends execute_request at once with the Network or Timeout error of
\* that read: no send and no sleep follows even when retries remain, and the
\* error is returned whatever the status, below 400 included.
C32_BodyReadFailureNotRetried ==
    \A t \in Tasks :
        (op[t] = "execute_request" /\ BodyReadFailed(t)) =>
            /\ tpc[t] = "done"
            /\ Len(tsent[t]) = Len(tseen[t])
            /\ tresult[t] =
                  Some(Err(from_reqwest(Unwrap(Last(tseen[t]).text_err))))
            /\ Unwrap(Unwrap(tresult[t]).err).kind =
                  IF Unwrap(Last(tseen[t]).text_err).timeout
                  THEN "Timeout" ELSE "Network"
            /\ Unwrap(Unwrap(tresult[t]).err).status_code = None

C32_Witness ==
    /\ op["t1"] = "execute_request" /\ max_retries = 2
    /\ Len(tseen["t1"]) = 1 /\ Len(tsent["t1"]) = 1 /\ tattempt["t1"] = 0
    /\ tseen["t1"][1] = Reply(None, 200, Some(BodyError), Garbage, None)
    /\ tpc["t1"] = "done"
    /\ Unwrap(Unwrap(tresult["t1"]).err).kind = "Network"

\* C33: download_file has no retry loop: it sends exactly one request, and a
\* transport failure or a status >= 400 is returned as the classified error
\* after that one attempt, whatever max_retries is.
C33_DownloadSendsOnce ==
    \A t \in Tasks :
        op[t] = "download_file" =>
            /\ Len(tsent[t]) <= 1 /\ Len(tseen[t]) <= 1
            /\ tattempt[t] = 0 /\ tpc[t] # "sleep"
            /\ tseen[t] # <<>> =>
                  /\ tpc[t] = "done" /\ Len(tsent[t]) = 1
                  /\ IsSome(tseen[t][1].send_err) =>
                        tresult[t] =
                          Some(Err(from_reqwest(Unwrap(tseen[t][1].send_err))))
                  /\ (/\ ~IsSome(tseen[t][1].send_err)
                      /\ ~IsSome(tseen[t][1].text_err)
                      /\ tseen[t][1].status_code >= 400) =>
                        tresult[t] =
                          Some(Err(from_http_status(tseen[t][1].status_code,
                                                    Some(tseen[t][1].as_error))))
                  /\ Unwrap(tresult[t]).ok <=>
                        /\ ~IsSome(tseen[t][1].send_err)
                        /\ ~IsSome(tseen[t][1].text_err)
                        /\ tseen[t][1].status_code < 400

C33_Witness ==
    /\ op["t2"] = "download_file" /\ max_retries = 2
    /\ tpc["t2"] = "done" /\ Len(tsent["t2"]) = 1
    /\ IsSome(tseen["t2"][1].send_err)
    /\ Unwrap(Unwrap(tresult["t2"]).err).kind = "Network"

(***************************************************************************)
(* Claim about build_url applied twice, checked under SpecUrl.             *)
(***************************************************************************)
\* ASCII lower case of the letters a scheme is written with
to_ascii_lowercase(c) ==
    CASE c = "H" -> "h" [] c = "T" -> "t" [] c = "P" -> "p" [] c = "S" -> "s"
      [] OTHER -> c
\* url is an absolute http or https URL: the scheme, which is matched without
\* regard to case, then "://" and a host
IsHttpUrl(url) ==
    LET low == [i \in 1..Len(url) |-> to_ascii_lowercase(url[i])] IN
    \/ (Len(low) > 7 /\ SubSeq(low, 1, 7) = HttpScheme /\ low[8] # "/")
    \/ (Len(low) > 8 /\ SubSeq(low, 1, 8) = HttpsScheme /\ low[9] # "/")

\* C36: on a client whose configured base address is an absolute http(s) URL,
\* build_url applied to a URL it returned gives that URL back:
\* build_url(build_url(p)) = build_url(p) for every path p.
C36_BuildUrlIdempotent ==
    (call = "build_url" /\ IsSome(call_result) /\ IsHttpUrl(call_args[1])) =>
        build_url(base_url(call_args[1]), Unwrap(call_result).text)
            = Unwrap(call_result).text

\* the same for the bases whose scheme is written in lower case
C36_IdempotentOnLowerCaseScheme ==
    (call = "build_url" /\ IsSome(call_result) /\ IsAbsolute(call_args[1])) =>
        build_url(base_url(call_args[1]), Unwrap(call_result).text)
            = Unwrap(call_result).text

(***************************************************************************)
(* Claim about the debug flag, checked under Spec: every step of the call  *)
(* is taken by the run with debug = false as well, on the same result of   *)
(* the transport.                                                          *)
(***************************************************************************)
\* C35: the debug flag affects only tracing: fed the same transport results,
\* the call run with debug enabled and the call run with debug disabled make
\* the same attempts, sleep the same delays and return the same outcome.
C35_DebugOnlyTraces ==
    quiet = Run(pc, attempt, last_error, result, sends, sleeps)

\* without the flag the run of the call is the run with debug = false
C35_QuietIsTheCallWithoutDebug ==
    ~debug => quiet = Run(pc, attempt, last_error, result, sends, sleeps)

\* in a build that wraps, the two runs differ in the log only
C35_SameWhenOverflowWraps ==
    ~overflow_checks => quiet = Run(pc, attempt, last_error, result, sends, sleeps)

====
